---- MODULE Spec2Model ----
(***************************************************************************)
(* Battle orchestration of vibe-cobe-rts: BattleService (the orchestrator),*)
(* OpenCodeService (one worker session per agent) and WorktreeService (the *)
(* isolated working copies).  The program runs on one event loop, so every *)
(* action below is one run-to-completion slice of a handler: from the      *)
(* resumption of an `await` (or the arrival of a request or timer) to the  *)
(* next `await` that really suspends.  onEvent callbacks are invoked       *)
(* synchronously by the session code, so the synchronous prefix of         *)
(* handleAgentEvent is part of the session step that raises the event.     *)
(***************************************************************************)
EXTENDS Integers, FiniteSets, Sequences, TLC

MAX_CONCURRENT_BATTLES == 3
\* private nextPort: number = 4096
FirstPort == 4096

\* Bounds of the model: the largest unitCount that is configured, the number
\* of POST /api/config calls, and the number of battles that are registered
\* in a run of Spec (one race in full detail), of SpecFleet (many races) and
\* of SpecShutdown (races before and after the service shuts down), of
\* SpecWorktrees (races whose working copies are created and swept).
MaxUnits == 2
MaxConfigures == 1
MaxBattles == 1
MaxFleet == 4
MaxShutdownBattles == 2
MaxWorktreeBattles == 2
\* Bounds of the telemetry: the largest token count of a report and of a
\* counter, the number of entries of a diff summary, the largest line count of
\* an entry, the number of permission replies of an agent that are in flight.
MaxTokens == 2
MaxDiffs == 2
MaxLines == 1
MaxReplies == 1
MaxEvents == 3

Units == 1..MaxUnits
BattleIds == 1..(IF MaxFleet > MaxBattles THEN MaxFleet ELSE MaxBattles)

VARIABLES
    config,      \* githubService config: 0 = not configured, else unitCount
    nConfig,     \* number of POST /api/config calls so far
    thrown,      \* error thrown by the synchronous prefix of the last startBattle
    battles,     \* BattleService.battles and the Battle objects it created
    agents,      \* battle.agents[*] and the in-flight handleAgentSuccess of each
    sessions,    \* OpenCodeService.activeSessions and the AgentSession objects
    worktrees,   \* working copies that exist on disk: <<battleId, ordinal>>
    shutdown,    \* OpenCodeService.isShuttingDown and the shutdown() in flight
    cwd,         \* process.cwd() of the server process
    chdirMutex,  \* the sessions chained on OpenCodeService.chdirMutex, in order
    nextPort     \* OpenCodeService.nextPort

vars == <<config, nConfig, thrown, battles, agents, sessions, worktrees, shutdown,
          cwd, chdirMutex, nextPort>>

-----------------------------------------------------------------------------
\* Records

\* The model refers to a battle by the ordinal of its creation; id tells which
\* of the ids of `nanoid` the battle has got (0: none).  cleanupBy lists
\* the cleanupBattle calls that have not returned (the agent whose
\* handleAgentSuccess awaits the call inside its try block, else 0); sweep and
\* todo are the position of the call that is being carried out.
NoBattle ==
    [status |-> "none", inMap |-> FALSE, unitCount |-> 0, units |-> 0,
     startPc |-> "none", prov |-> 0, completedAt |-> 0, winningAgentId |-> 0,
     prUrl |-> 0, cleanupCalls |-> 0, cleanupPending |-> 0,
     cb |-> "idle", cbIdx |-> 0,
     id |-> 0, issueNumber |-> 0,
     cleanupBy |-> <<>>, sweep |-> "idle", todo |-> {}]

NoAgent == [status |-> "none", error |-> "none", h |-> "idle", hIdx |-> 0,
            git |-> "none"]

\* The fields of AgentDetailedState that token accounting, file tracking and
\* permission replies use.  An optional value is <<>> (undefined) or <<v>>.
createInitialDetailedState ==
    [activity |-> "initializing",
     tokens |-> [input |-> 0, output |-> 0, reasoning |-> 0],
     filesModified |-> <<>>, linesAdded |-> 0, linesDeleted |-> 0,
     isFinished |-> FALSE, pendingPermission |-> <<>>]

\* rp counts the respondToPermission calls that await the runtime, rpResult is
\* what the last call that returned has returned.
NoSession ==
    [phase |-> "none", status |-> "none", aborted |-> FALSE, active |-> FALSE,
     timer |-> FALSE, conn |-> 0, ct |-> "idle", tk |-> "idle",
     ev |-> "none", evData |-> "none", nEv |-> 0, killed |-> FALSE,
     originalCwd |-> <<>>, detailedState |-> createInitialDetailedState,
     rp |-> 0, rpResult |-> "none",
     sub |-> "none", seen |-> 0, progress |-> 0, serverPort |-> <<>>]

\* agent.error = data ? String(data) : 'Unknown error'.  Every failed event
\* carries an object ({ error: ... }), and String() of an object is this text.
StringOf(data) == IF data = "undefined" THEN "Unknown error" ELSE "[object Object]"

\* What an event handler can touch or see, bundled so that the synchronous
\* code can be composed as functions (wt is read only).
Now == [bt |-> battles, ag |-> agents, ss |-> sessions, cwd |-> cwd,
        mx |-> chdirMutex, wt |-> worktrees, np |-> nextPort]

AgentsOf(o, b) == 1..o.bt[b].units

\* agents.map((path, index) => ({ id: `${battleId}-agent-${index}`,
\* unitIndex: index, ... })): the k-th agent of the list has index k - 1.
unitIndex(k) == k - 1
agentId(b, k) == <<b, "agent", unitIndex(k)>>

\* Faulty variant of getActiveBattleCount: battles still provisioning are not counted.
getActiveBattleCountFightingOnly ==
    Cardinality({b \in BattleIds :
        battles[b].inMap /\ battles[b].status = "fighting"})

\* Faulty variant of getActiveBattleCount: only pending battles are counted.
getActiveBattleCountPendingOnly ==
    Cardinality({b \in BattleIds :
        battles[b].inMap /\ battles[b].status = "pending"})

getActiveBattleCount ==
    Cardinality({b \in BattleIds :
        battles[b].inMap /\ battles[b].status \in {"pending", "fighting"}})

\* The ordinal of the next battle
nextId == Cardinality({b \in BattleIds : battles[b].status # "none"}) + 1

-----------------------------------------------------------------------------
\* Texts: a text is the sequence of its characters

\* String(n) of a non-negative integer, as a template literal renders it
RECURSIVE toString(_)
toString(n) ==
    LET digit == <<"0", "1", "2", "3", "4", "5", "6", "7", "8", "9">>
    IN IF n < 10 THEN <<digit[n + 1]>>
       ELSE toString(n \div 10) \o <<digit[(n % 10) + 1]>>

\* String.prototype.includes
stringIncludes(text, part) ==
    \E k \in 0..(Len(text) - Len(part)) :
        SubSeq(text, k + 1, k + Len(part)) = part

\* nanoid(10) returns ten characters of A-Za-z0-9_-.  This is the n-th of
\* ten such ids (n in 1..10), with '-' and '0' in the places where they can
\* be taken for the separators and ordinals of the names built from an id;
\* nanoid(0) is the empty text of a battle that does not exist.
NanoidSize == 10
nanoid(n) ==
    IF n = 0 THEN <<>>
    ELSE [k \in 1..NanoidSize |->
             IF k = n THEN "-" ELSE IF k = n + 1 THEN "0" ELSE "a"]

\* The ids a battle of a run with several races can get, and the issues it
\* can be started for
Nanoids == {1, NanoidSize - 1, NanoidSize}
Issues == {1, 11}

\* WORKTREES_DIR = path.join(process.cwd(), 'worktrees'), relative to the
\* directory the server was started in
WORKTREES_DIR == <<"w", "o", "r", "k", "t", "r", "e", "e", "s">>

\* `battle-${battleId}`
battleTag(id) == <<"b", "a", "t", "t", "l", "e", "-">> \o id

\* battleDir = path.join(WORKTREES_DIR, `battle-${battleId}`)
battleDir(id) == WORKTREES_DIR \o <<"/">> \o battleTag(id)

\* agentDir = path.join(battleDir, `agent-${i}`)
agentDir(id, i) ==
    battleDir(id) \o <<"/", "a", "g", "e", "n", "t", "-">> \o toString(i)

\* Faulty variant of branchName: the battle id is left out of the name.
branchNamePerIssue(issueNumber, id, i) ==
    <<"f", "i", "x", "/", "i", "s", "s", "u", "e", "-">> \o toString(issueNumber)
    \o <<"-", "a", "t", "t", "e", "m", "p", "t", "-">> \o toString(i)

\* branchName = `fix/issue-${issueNumber}-attempt-${battleId}-${i}`
branchName(issueNumber, id, i) ==
    <<"f", "i", "x", "/", "i", "s", "s", "u", "e", "-">> \o toString(issueNumber)
    \o <<"-", "a", "t", "t", "e", "m", "p", "t", "-">> \o id
    \o <<"-">> \o toString(i)

-----------------------------------------------------------------------------
\* OpenCodeService: synchronous prefixes

\* The directory the server process was started in, and agent.worktreePath:
\* the k-th path returned by createWorktreesForBattle.
OriginalCwd == <<>>
worktreePath(b, k) == <<b, k>>

\* startSession: the AgentSession that is registered, with its timer set.  Its
\* runSession has not run yet ("queued": createServer has not been entered).
startSession ==
    [phase |-> "queued", status |-> "working", aborted |-> FALSE, active |-> TRUE,
     timer |-> TRUE, conn |-> 0, ct |-> "idle", tk |-> "idle",
     ev |-> "none", evData |-> "none", nEv |-> 0, killed |-> FALSE,
     originalCwd |-> <<>>, detailedState |-> createInitialDetailedState,
     rp |-> 0, rpResult |-> "none",
     sub |-> "none", seen |-> 0, progress |-> 0, serverPort |-> <<>>]

\* cancelSession up to its first await.  Only called for a session in the map.
\* With client and sessionId it first awaits the remote abort; otherwise it is
\* already inside forceKillSession -> cleanupSession, which clears the timers.
cancelSession(s) ==
    IF s.conn = 2
    THEN [s EXCEPT !.aborted = TRUE, !.ct = "abort"]
    ELSE [s EXCEPT !.aborted = TRUE, !.ct = "kill", !.timer = FALSE]

-----------------------------------------------------------------------------
\* WorktreeService / BattleService: synchronous pieces

\* worktreeService.cleanupBattle is called (it suspends at once on git).
\* caller is the agent whose handleAgentSuccess awaits it inside its try, else 0.
cleanupCall(o, b, caller) ==
    [o EXCEPT !.bt[b].cleanupCalls = @ + 1, !.bt[b].cleanupPending = @ + 1,
              !.bt[b].cleanupBy = Append(@, caller)]

\* The loops "for (agent of battle.agents) if (...) { agent.status =
\* 'cancelled'; await cancelSession(agent.id) }", run from ordinal j until a
\* cancelSession really suspends (wait = that ordinal) or the list ends
\* (wait = 0).  skip is the winner (victory loop), pend adds 'pending'
\* (cancelBattle).  cancelSession of a session that is not in the map returns
\* at once and the loop goes on.
RECURSIVE CancelLoop(_, _, _, _, _)
CancelLoop(o, b, j, skip, pend) ==
    IF j > o.bt[b].units THEN [o |-> o, wait |-> 0]
    ELSE IF /\ j # skip
            /\ \/ o.ag[b][j].status = "working"
               \/ pend /\ o.ag[b][j].status = "pending"
    THEN LET o1 == [o EXCEPT !.ag[b][j].status = "cancelled"]
         IN IF o1.ss[b][j].active
            THEN [o |-> [o1 EXCEPT !.ss[b][j] = cancelSession(@)], wait |-> j]
            ELSE CancelLoop(o1, b, j + 1, skip, pend)
    ELSE CancelLoop(o, b, j + 1, skip, pend)

\* Run a cancel loop on behalf of a task: owner i > 0 is the handleAgentSuccess
\* of agent i (kind "v" after the victory assignment, "d" inside
\* handleBattleDefeat), owner 0 is cancelBattle, owner -1 is the failed branch of
\* handleAgentEvent.  After the loop the task calls cleanupBattle and ends.
RunLoop(o, b, from, skip, pend, owner, kind) ==
    LET r == CancelLoop(o, b, from, skip, pend)
        o1 == IF r.wait = 0
              THEN cleanupCall(r.o, b, IF owner > 0 /\ kind = "v" THEN owner ELSE 0)
              ELSE r.o
    IN IF owner > 0
       THEN [o1 EXCEPT !.ag[b][owner].h =
                           IF r.wait = 0 THEN kind \o "done" ELSE kind \o "wait",
                       !.ag[b][owner].hIdx = r.wait]
       ELSE IF owner = 0
       THEN [o1 EXCEPT !.bt[b].cb = IF r.wait = 0 THEN "done" ELSE "wait",
                       !.bt[b].cbIdx = r.wait]
       ELSE o1

\* Faulty variant of handleBattleDefeat: the status is not set.
handleBattleDefeatKeepsStatus(o, b, owner) ==
    RunLoop([o EXCEPT !.bt[b].completedAt = @ + 1], b, 1, 0, FALSE, owner, "d")

handleBattleDefeat(o, b, owner) ==
    RunLoop([o EXCEPT !.bt[b].status = "defeat", !.bt[b].completedAt = @ + 1],
            b, 1, 0, FALSE, owner, "d")

\* Faulty variant of cleanupBattleSettles: an error inside the sweep is rethrown.
cleanupBattleRethrows(error) == IF error THEN "rejected" ELSE "resolved"

\* cleanupBattle's outer try/catch: whether or not something threw inside the
\* sweep, the error is logged and the promise resolves.
cleanupBattleSettles(error) == "resolved"

\* The oldest cleanupBattle call settles and its caller resumes.  A rejection
\* inside the try of handleAgentSuccess goes to its catch: handleBattleDefeat.
\* The other callers do nothing more with either outcome.
cleanupSettled(o, b, outcome) ==
    LET caller == Head(o.bt[b].cleanupBy)
        o1 == [o EXCEPT !.bt[b].cleanupPending = @ - 1,
                        !.bt[b].cleanupBy = Tail(@),
                        !.bt[b].sweep = "idle",
                        !.bt[b].todo = {}]
    IN IF outcome = "rejected" /\ caller > 0
       THEN handleBattleDefeat(o1, b, caller)
       ELSE o1

\* Faulty variant of listedForCleanup: every battle directory matches.
listedForCleanupAnyBattle(o, b) ==
    {w \in o.wt : stringIncludes(agentDir(nanoid(o.bt[w[1]].id), unitIndex(w[2])),
                                 battleTag(<<>>))}

\* The working copies that the sweep of cleanupBattle(b) removes one by one:
\* those of `git worktree list` whose path includes `battle-${battleId}`
listedForCleanup(o, b) ==
    {w \in o.wt : stringIncludes(agentDir(nanoid(o.bt[w[1]].id), unitIndex(w[2])),
                                 battleTag(nanoid(o.bt[b].id)))}

\* The working copies that fs.rm(battleDir, { recursive }) deletes: those
\* whose path lies in the battle directory
underBattleDir(o, b) ==
    LET dir == battleDir(nanoid(o.bt[b].id)) \o <<"/">>
    IN {w \in o.wt :
          LET path == agentDir(nanoid(o.bt[w[1]].id), unitIndex(w[2]))
          IN Len(path) >= Len(dir) /\ SubSeq(path, 1, Len(dir)) = dir}

\* Faulty variant of victory: the other agents are not cancelled.
victoryKeepsOthers(o, b, i) ==
    RunLoop([o EXCEPT !.bt[b].status = "victory", !.bt[b].completedAt = @ + 1,
                      !.bt[b].prUrl = i, !.bt[b].winningAgentId = i],
            b, o.bt[b].units + 1, i, FALSE, i, "v")

\* handleAgentSuccess after createPullRequest has resolved
victory(o, b, i) ==
    RunLoop([o EXCEPT !.bt[b].status = "victory", !.bt[b].completedAt = @ + 1,
                      !.bt[b].prUrl = i, !.bt[b].winningAgentId = i],
            b, 1, i, FALSE, i, "v")

\* Faulty variant of handleAgentEvent: any failure ends the battle.
handleAgentEventFailFast(o, b, i, event, data) ==
    IF ~o.bt[b].inMap \/ i \notin AgentsOf(o, b) THEN o
    ELSE IF event = "success"
    THEN IF o.bt[b].status # "fighting" THEN o
         ELSE [o EXCEPT !.ag[b][i].status = "success", !.ag[b][i].h = "commit"]
    ELSE IF event = "failed"
    THEN handleBattleDefeat([o EXCEPT !.ag[b][i].status = "failed",
                                      !.ag[b][i].error = StringOf(data)], b, -1)
    ELSE o

\* handleAgentEvent up to its first await
handleAgentEvent(o, b, i, event, data) ==
    IF ~o.bt[b].inMap \/ i \notin AgentsOf(o, b) THEN o
    ELSE IF event = "success"
    THEN IF o.bt[b].status # "fighting" THEN o
         ELSE [o EXCEPT !.ag[b][i].status = "success", !.ag[b][i].h = "commit"]
    ELSE IF event = "failed"
    THEN LET o1 == [o EXCEPT !.ag[b][i].status = "failed",
                             !.ag[b][i].error = StringOf(data)]
             allFailed == \A k \in AgentsOf(o1, b) :
                              o1.ag[b][k].status \in {"failed", "cancelled"}
         IN IF allFailed THEN handleBattleDefeat(o1, b, -1) ELSE o1
    ELSE o

\* onEvent(agentId, 'success' | 'failed', data): the session's callback runs
\* handleAgentEvent at once.  ev, evData and nEv record what was delivered.
onEvent(o, b, i, event, data) ==
    handleAgentEvent([o EXCEPT !.ss[b][i].ev = event, !.ss[b][i].evData = data,
                               !.ss[b][i].nEv = @ + 1],
                     b, i, event, data)

\* checkForChanges: `git status --porcelain` printed something ("dirty"),
\* nothing ("clean"), or could not be run ("threw", caught and logged).
GitStatus == {"dirty", "clean", "threw"}

\* Faulty variant of checkForChanges: a status check that fails counts as changes.
checkForChangesUnlessClean(git) == git # "clean"

checkForChanges(git) == git = "dirty"

\* What git answers to the calls of one commitAndPush: branch, add, status
\* (files listed or none), commit, push.  A call that throws is the last one
\* made; the calls that are not made have no answer (FALSE, "threw").
GitRuns ==
    {g \in [branch : BOOLEAN, add : BOOLEAN, status : GitStatus,
            commit : BOOLEAN, push : BOOLEAN] :
        /\ ~g.branch => ~g.add
        /\ ~g.add => g.status = "threw"
        /\ g.status # "dirty" => ~g.commit
        /\ ~g.commit => ~g.push}

\* Faulty variant of commitAndPush: with no file listed it returns the branch.
commitAndPushSkipsEmpty(g) ==
    IF ~g.branch \/ ~g.add \/ g.status = "threw"
    THEN [threw |-> TRUE, git |-> "none"]
    ELSE IF g.status = "clean" THEN [threw |-> FALSE, git |-> "none"]
    ELSE IF ~g.commit THEN [threw |-> TRUE, git |-> "none"]
    ELSE IF ~g.push THEN [threw |-> TRUE, git |-> "committed"]
    ELSE [threw |-> FALSE, git |-> "pushed"]

\* WorktreeService.commitAndPush: whether it throws, and how far the branch of
\* the working copy got ("none": no commit, "committed": commit without
\* push, "pushed").  No listed file is the error 'No changes to commit'.
commitAndPush(g) ==
    IF ~g.branch \/ ~g.add \/ g.status = "threw"
    THEN [threw |-> TRUE, git |-> "none"]
    ELSE IF g.status = "clean" THEN [threw |-> TRUE, git |-> "none"]
    ELSE IF ~g.commit THEN [threw |-> TRUE, git |-> "none"]
    ELSE IF ~g.push THEN [threw |-> TRUE, git |-> "committed"]
    ELSE [threw |-> FALSE, git |-> "pushed"]

-----------------------------------------------------------------------------
\* OpenCodeService.processEvent

\* x || 0 for an optional number
OrZero(x) == IF x = <<>> THEN 0 ELSE x[1]

\* Math.max
Max(x, y) == IF x >= y THEN x ELSE y

\* setActivity: the activity changes only while the agent is not finished
setActivity(ds, activity) ==
    IF ds.isFinished THEN ds ELSE [ds EXCEPT !.activity = activity]

\* Array.prototype.includes
includes(list, x) == \E k \in 1..Len(list) : list[k] = x

\* if (!filesModified.includes(file)) filesModified.push(file)
pushFile(ds, file) ==
    IF includes(ds.filesModified, file) THEN ds
    ELSE [ds EXCEPT !.filesModified = Append(@, file)]

\* case 'message.part.updated'
messagePartUpdated(ds, part) ==
    IF part.type = "tool"
    THEN IF part.status = "running" THEN setActivity(ds, "tool_running")
         ELSE IF part.status = "completed" THEN setActivity(ds, "responding")
         ELSE ds
    ELSE IF part.type = "reasoning" THEN setActivity(ds, "thinking")
    ELSE IF part.type = "text" THEN setActivity(ds, "responding")
    ELSE IF part.type = "step-finish"
    THEN IF part.tokens = <<>> THEN ds
         ELSE [ds EXCEPT !.tokens.input = @ + OrZero(part.tokens[1].input),
                         !.tokens.output = @ + OrZero(part.tokens[1].output),
                         !.tokens.reasoning = @ + OrZero(part.tokens[1].reasoning)]
    ELSE IF part.type = "retry" THEN setActivity(ds, "retrying")
    ELSE ds

\* Faulty variant of messageUpdated: the report is added to the counters.
messageUpdatedAdds(ds, info) ==
    IF info.role = "assistant" /\ info.tokens # <<>>
    THEN [ds EXCEPT !.tokens.input = @ + OrZero(info.tokens[1].input),
                    !.tokens.output = @ + OrZero(info.tokens[1].output),
                    !.tokens.reasoning = @ + OrZero(info.tokens[1].reasoning)]
    ELSE ds

\* case 'message.updated'
messageUpdated(ds, info) ==
    IF info.role = "assistant" /\ info.tokens # <<>>
    THEN [ds EXCEPT !.tokens.input = Max(@, OrZero(info.tokens[1].input)),
                    !.tokens.output = Max(@, OrZero(info.tokens[1].output)),
                    !.tokens.reasoning = Max(@, OrZero(info.tokens[1].reasoning))]
    ELSE ds

\* case 'session.status'
sessionStatus(ds, status) ==
    IF status = "idle" THEN setActivity(ds, "idle")
    ELSE IF status = "busy"
    THEN IF ds.activity \in {"initializing", "idle"}
         THEN setActivity(ds, "responding") ELSE ds
    ELSE IF status = "retry" THEN setActivity(ds, "retrying")
    ELSE ds

\* for (const diff of diffs) { totalAdded += ...; totalDeleted += ...; push }
RECURSIVE diffLoop(_, _, _, _, _)
diffLoop(ds, diffs, k, totalAdded, totalDeleted) ==
    IF k > Len(diffs)
    THEN [ds |-> ds, totalAdded |-> totalAdded, totalDeleted |-> totalDeleted]
    ELSE diffLoop(pushFile(ds, diffs[k].file), diffs, k + 1,
                  totalAdded + OrZero(diffs[k].additions),
                  totalDeleted + OrZero(diffs[k].deletions))

\* Faulty variant of sessionDiff: the totals are added to the stored counts.
sessionDiffAccumulates(ds, diffs) ==
    LET r == diffLoop(ds, diffs, 1, 0, 0)
    IN [r.ds EXCEPT !.linesAdded = @ + r.totalAdded,
                    !.linesDeleted = @ + r.totalDeleted]

\* case 'session.diff'
sessionDiff(ds, diffs) ==
    LET r == diffLoop(ds, diffs, 1, 0, 0)
    IN [r.ds EXCEPT !.linesAdded = r.totalAdded,
                    !.linesDeleted = r.totalDeleted]

\* agentSession.sessionId: the identifier the runtime gave the session of
\* agent i of battle b (session.data.id); the runtime numbers its sessions.
sessionId(b, i) == <<b, i>>

\* props.f is not undefined
has(props, f) == f \in DOMAIN props

\* Faulty variant of isOurSession: any event that names a session matches.
isOurSessionAnySession(props, sid) ==
    \/ has(props, "sessionID")
    \/ has(props, "part") /\ has(props.part, "sessionID")
    \/ has(props, "info") /\ has(props.info, "sessionID")

\* isOurSession: the identifier is compared at the top level of the
\* properties, then inside part, then inside info.  An event record holds
\* its type and the fields of its properties.
isOurSession(props, sid) ==
    \/ has(props, "sessionID") /\ props.sessionID = sid
    \/ has(props, "part") /\ has(props.part, "sessionID") /\ props.part.sessionID = sid
    \/ has(props, "info") /\ has(props.info, "sessionID") /\ props.info.sessionID = sid

\* processEvent: the new detailed state and whether it was updated.  Of
\* session.error and todo.updated only the return value is kept: the error
\* count, the last error and the todo list are not part of the state here.
processEvent(ds, sid, evt) ==
    IF ~isOurSession(evt, sid) THEN [ds |-> ds, updated |-> FALSE]
    ELSE IF evt.type = "message.part.updated"
    THEN [ds |-> messagePartUpdated(ds, evt.part), updated |-> TRUE]
    ELSE IF evt.type = "message.updated"
    THEN [ds |-> messageUpdated(ds, evt.info), updated |-> TRUE]
    ELSE IF evt.type = "permission.updated"
    THEN [ds |-> [setActivity(ds, "waiting_permission")
                     EXCEPT !.pendingPermission = <<evt.id>>],
          updated |-> TRUE]
    ELSE IF evt.type = "permission.replied"
    THEN [ds |-> setActivity([ds EXCEPT !.pendingPermission = <<>>], "responding"),
          updated |-> TRUE]
    ELSE IF evt.type = "session.status"
    THEN [ds |-> sessionStatus(ds, evt.status), updated |-> TRUE]
    ELSE IF evt.type = "session.idle"
    THEN [ds |-> setActivity(ds, "idle"), updated |-> TRUE]
    ELSE IF evt.type = "file.edited"
    THEN [ds |-> pushFile(ds, evt.file), updated |-> TRUE]
    ELSE IF evt.type = "session.diff"
    THEN [ds |-> sessionDiff(ds, evt.diff), updated |-> TRUE]
    ELSE IF evt.type \in {"session.error", "todo.updated"}
    THEN [ds |-> ds, updated |-> TRUE]
    ELSE [ds |-> ds, updated |-> FALSE]

\* The events of the runtime's stream.  They name the session of the first
\* or of the second agent of the first battle.
SessionIds == {sessionId(1, 1), sessionId(1, 2)}
Files == {"a.ts", "b.ts"}
PermissionIds == {"per_1"}
OptTokens == {<<>>} \cup {<<n>> : n \in 1..MaxTokens}
OptLines == {<<>>} \cup {<<n>> : n \in 1..MaxLines}
TokenReports ==
    {<<>>} \cup {<<t>> : t \in [input : OptTokens, output : OptTokens,
                                reasoning : OptTokens]}
ActivityParts ==
    [type : {"tool"}, status : {"running", "completed", "error"}]
    \cup [type : {"reasoning", "text", "retry"}]
StepFinishParts == [type : {"step-finish"}, tokens : TokenReports]
DiffEntries == [file : Files, additions : OptLines, deletions : OptLines]
Diffs == UNION {[1..n -> DiffEntries] : n \in 0..MaxDiffs}
Activity ==
    [type : {"message.part.updated"}, sessionID : SessionIds, part : ActivityParts]
StepFinish ==
    [type : {"message.part.updated"}, sessionID : SessionIds, part : StepFinishParts]
MessageUpdated ==
    [type : {"message.updated"}, sessionID : SessionIds,
     info : [role : {"assistant", "user"}, tokens : TokenReports]]
PermissionEvents ==
    [type : {"permission.updated"}, sessionID : SessionIds, id : PermissionIds]
    \cup [type : {"permission.replied"}, sessionID : SessionIds]
StatusEvents ==
    [type : {"session.status"}, sessionID : SessionIds, status : {"idle", "busy", "retry"}]
    \cup [type : {"session.idle"}, sessionID : SessionIds]
FileEdited == [type : {"file.edited"}, sessionID : SessionIds, file : Files]
SessionDiff == [type : {"session.diff"}, sessionID : SessionIds, diff : Diffs]

Store(o) ==
    /\ battles' = o.bt
    /\ agents' = o.ag
    /\ sessions' = o.ss
    /\ cwd' = o.cwd
    /\ chdirMutex' = o.mx
    /\ nextPort' = o.np

-----------------------------------------------------------------------------
Init ==
    /\ config = 0
    /\ nConfig = 0
    /\ thrown = "none"
    /\ battles = [b \in BattleIds |-> NoBattle]
    /\ agents = [b \in BattleIds |-> [i \in Units |-> NoAgent]]
    /\ sessions = [b \in BattleIds |-> [i \in Units |-> NoSession]]
    /\ worktrees = {}
    /\ shutdown = [flag |-> FALSE, pc |-> "idle", snap |-> {}]
    /\ cwd = OriginalCwd
    /\ chdirMutex = <<>>
    /\ nextPort = FirstPort

\* POST /api/config
Configure(u) ==
    /\ nConfig < MaxConfigures
    /\ config' = u
    /\ nConfig' = nConfig + 1
    /\ UNCHANGED <<thrown, battles, agents, sessions, worktrees, shutdown,
                 cwd, chdirMutex, nextPort>>

\* startBattle up to `await createWorktreesForBattle`; at most `limit` battles
\* are registered in a run.  nanoid returns one of `ids` that no earlier battle
\* has, and the battle is for one of `issues`.
StartBattle(limit, ids, issues) ==
    IF getActiveBattleCount >= MAX_CONCURRENT_BATTLES
    THEN /\ thrown' = "Maximum concurrent battles reached"
         /\ UNCHANGED <<config, nConfig, battles, agents, sessions, worktrees, shutdown,
                 cwd, chdirMutex, nextPort>>
    ELSE IF config = 0
    THEN /\ thrown' = "GitHub not configured"
         /\ UNCHANGED <<config, nConfig, battles, agents, sessions, worktrees, shutdown,
                 cwd, chdirMutex, nextPort>>
    ELSE /\ nextId <= limit
         /\ thrown' = "none"
         /\ \E id \in ids, issue \in issues :
               /\ \A c \in BattleIds : battles[c].id # id
               /\ battles' = [battles EXCEPT ![nextId] =
                      [NoBattle EXCEPT !.status = "pending", !.inMap = TRUE,
                                       !.unitCount = config,
                                       !.startPc = "provisioning",
                                       !.id = id, !.issueNumber = issue]]
         /\ UNCHANGED <<config, nConfig, agents, sessions, worktrees, shutdown,
                 cwd, chdirMutex, nextPort>>

\* `finally` of runSession: cleanupSession clears the timers and suspends; the
\* map entry is deleted when it resumes (FinDone).
finally(o, b, i) == [o EXCEPT !.ss[b][i].phase = "fin", !.ss[b][i].timer = FALSE]

\* Faulty variant of catch: the error is logged and no event is raised.
catchSwallows(o, b, i) ==
    IF o.ss[b][i].aborted THEN finally(o, b, i)
    ELSE finally([o EXCEPT !.ss[b][i].status = "failed"], b, i)

\* The catch block of runSession followed by finally
catch(o, b, i) ==
    IF o.ss[b][i].aborted THEN finally(o, b, i)
    ELSE finally(onEvent([o EXCEPT !.ss[b][i].status = "failed"],
                         b, i, "failed", "error"), b, i)

\* chdirMutex.then(() => createServer()): when the mutex is free its first
\* session enters createServer, which saves process.cwd(), changes into the
\* working copy and suspends in createOpencode ("boot").  process.chdir throws
\* when the working copy is gone: createServer rejects before its try, the
\* session goes to its catch and the next session of the chain has its turn.
RECURSIVE createServer(_)
createServer(o) ==
    IF o.mx = <<>> THEN o
    ELSE LET b == Head(o.mx)[1]
             i == Head(o.mx)[2]
         IN IF o.ss[b][i].phase # "queued" THEN o
            ELSE IF worktreePath(b, i) \in o.wt
            THEN [o EXCEPT !.ss[b][i].originalCwd = o.cwd,
                           !.ss[b][i].phase = "boot",
                           !.cwd = worktreePath(b, i)]
            ELSE createServer(catch([o EXCEPT !.mx = Tail(@)], b, i))

\* The finally of createServer, and the mutex passing to the next session
createServerFinally(o, b, i) ==
    [o EXCEPT !.cwd = o.ss[b][i].originalCwd,
              !.mx = SelectSeq(@, LAMBDA p : p # <<b, i>>)]

\* Faulty variant of runSession: createServer is called without the mutex.
runSessionUnchained(o, b, k) ==
    [o EXCEPT !.np = @ + 1,
              !.ss[b][k].serverPort = <<o.np>>,
              !.mx = Append(@, <<b, k>>),
              !.ss[b][k].originalCwd = o.cwd,
              !.ss[b][k].phase = "boot",
              !.cwd = worktreePath(b, k)]

\* Faulty variant of runSession: the port counter is read and not advanced.
runSessionSamePort(o, b, k) ==
    createServer([o EXCEPT !.ss[b][k].serverPort = <<o.np>>,
                           !.mx = Append(@, <<b, k>>)])

\* runSession up to its first await: the session takes the next port
\* (this.nextPort++) and createServer is chained on chdirMutex.  The callback
\* of a free mutex runs before any other task gets its turn.
runSession(o, b, k) ==
    createServer([o EXCEPT !.np = @ + 1,
                           !.ss[b][k].serverPort = <<o.np>>,
                           !.mx = Append(@, <<b, k>>)])

\* Faulty variant of startAgentSession: the shutdown flag is not consulted.
startAgentSessionAlways(o, b, k) ==
    runSession([o EXCEPT !.ag[b][k].status = "working",
                         !.ss[b][k] = startSession], b, k)

\* startAgentSession up to its await: the agent is working and startSession
\* has run.  While the service is shutting down startSession registers
\* nothing and reports failed at once.
startAgentSession(o, b, k) ==
    LET o1 == [o EXCEPT !.ag[b][k].status = "working"]
    IN IF shutdown.flag
       THEN onEvent(o1, b, k, "failed", "Service is shutting down")
       ELSE runSession([o1 EXCEPT !.ss[b][k] = startSession], b, k)

\* for (const agent of agents) this.startAgentSession(battle, agent)
RECURSIVE startAll(_, _, _)
startAll(o, b, k) ==
    IF k > o.bt[b].units THEN o
    ELSE startAll(startAgentSession(o, b, k), b, k + 1)

\* Faulty variant of WorktreeAdded: the race starts after the first working copy.
WorktreeAddedStartsEarly(b) ==
    /\ battles[b].startPc = "provisioning"
    /\ worktrees' = worktrees \cup {<<b, 1>>}
    /\ Store(startAll(
           [Now EXCEPT !.wt = @ \cup {<<b, 1>>},
                       !.bt[b].prov = 1,
                       !.bt[b].units = 1,
                       !.bt[b].status = "fighting",
                       !.bt[b].startPc = "returned",
                       !.ag[b] = [i \in Units |->
                           IF i <= 1
                           THEN [NoAgent EXCEPT !.status = "pending"]
                           ELSE NoAgent]],
           b, 1))
    /\ UNCHANGED <<config, nConfig, thrown, shutdown>>

\* One `git worktree add` of createWorktreesForBattle resolves.  After the last
\* one startBattle resumes: agents created (pending), status fighting, every
\* session started (each startAgentSession runs synchronously up to
\* startSession's return).
WorktreeAdded(b) ==
    /\ battles[b].startPc = "provisioning"
    /\ LET n == battles[b].prov + 1
       IN /\ worktrees' = worktrees \cup {<<b, n>>}
          /\ IF n < battles[b].unitCount
             THEN /\ battles' = [battles EXCEPT ![b].prov = n]
                  /\ UNCHANGED <<agents, sessions, cwd, chdirMutex, nextPort>>
             ELSE Store(startAll(
                     [Now EXCEPT !.wt = @ \cup {<<b, n>>},
                                 !.bt[b].prov = n,
                                 !.bt[b].units = n,
                                 !.bt[b].status = "fighting",
                                 !.bt[b].startPc = "returned",
                                 !.ag[b] = [i \in Units |->
                                     IF i <= n
                                     THEN [NoAgent EXCEPT !.status = "pending"]
                                     ELSE NoAgent]],
                     b, 1))
    /\ UNCHANGED <<config, nConfig, thrown, shutdown>>

\* Faulty variant of ProvisionFail: the catch rethrows without marking the battle.
ProvisionFailStaysPending(b) ==
    /\ battles[b].startPc = "provisioning"
    /\ battles' = [battles EXCEPT ![b].startPc = "threw"]
    /\ UNCHANGED <<config, nConfig, thrown, agents, sessions, worktrees, shutdown,
                 cwd, chdirMutex, nextPort>>

\* createWorktreesForBattle throws (not initialized, or a worktree add fails):
\* the catch of startBattle.
ProvisionFail(b) ==
    /\ battles[b].startPc = "provisioning"
    /\ battles' = [battles EXCEPT ![b].status = "defeat",
                                  ![b].completedAt = @ + 1,
                                  ![b].startPc = "threw"]
    /\ UNCHANGED <<config, nConfig, thrown, agents, sessions, worktrees, shutdown,
                 cwd, chdirMutex, nextPort>>

-----------------------------------------------------------------------------
\* OpenCodeService.runSession, one action per resumption

\* createOpencode resolved inside createServer: the directory is restored,
\* client and server are set, and the next session of the chain enters
BootOk(b, i) ==
    /\ sessions[b][i].phase = "boot"
    /\ LET o == [createServerFinally(Now, b, i) EXCEPT !.ss[b][i].conn = 1]
       IN IF o.ss[b][i].aborted
          THEN Store(createServer(finally(o, b, i)))
          ELSE Store(createServer([o EXCEPT !.ss[b][i].phase = "create"]))
    /\ UNCHANGED <<config, nConfig, thrown, worktrees, shutdown>>

\* Faulty variant of BootFail: the rejection is not caught on the chain, the
\* failed bootstrap keeps the mutex.
BootFailKeepsMutex(b, i) ==
    /\ sessions[b][i].phase = "boot"
    /\ Store(catch([Now EXCEPT !.cwd = sessions[b][i].originalCwd], b, i))
    /\ UNCHANGED <<config, nConfig, thrown, worktrees, shutdown>>

\* createOpencode rejected (or timed out) inside createServer
BootFail(b, i) ==
    /\ sessions[b][i].phase = "boot"
    /\ Store(createServer(catch(createServerFinally(Now, b, i), b, i)))
    /\ UNCHANGED <<config, nConfig, thrown, worktrees, shutdown>>

\* client.session.create resolved with data: sessionId is set, the event
\* consumer (subscribeToEvents) is started and the prompt is sent
CreateOk(b, i) ==
    /\ sessions[b][i].phase = "create"
    /\ LET o == [Now EXCEPT !.ss[b][i].conn = 2]
       IN IF o.ss[b][i].aborted
          THEN Store(finally(o, b, i))
          ELSE Store([handleAgentEvent(
                         [o EXCEPT !.ss[b][i].detailedState.activity = "responding"],
                         b, i, "progress", "state")
                         EXCEPT !.ss[b][i].phase = "prompt",
                                !.ss[b][i].sub = "running"])
    /\ UNCHANGED <<config, nConfig, thrown, worktrees, shutdown>>

\* client.session.create rejected or returned no data
CreateFail(b, i) ==
    /\ sessions[b][i].phase = "create"
    /\ Store(catch(Now, b, i))
    /\ UNCHANGED <<config, nConfig, thrown, worktrees, shutdown>>

\* client.session.prompt resolved: abort the event subscription and await it
PromptReturn(b, i) ==
    /\ sessions[b][i].phase = "prompt"
    /\ Store([Now EXCEPT !.ss[b][i].aborted = TRUE, !.ss[b][i].phase = "join"])
    /\ UNCHANGED <<config, nConfig, thrown, worktrees, shutdown>>

PromptThrow(b, i) ==
    /\ sessions[b][i].phase = "prompt"
    /\ Store(catch(Now, b, i))
    /\ UNCHANGED <<config, nConfig, thrown, worktrees, shutdown>>

\* eventPromise settled (the consumer saw the abort at its next event, or its
\* stream ended) and runSession resumes at once: mark finished, then the
\* status check of line 250
JoinDone(b, i) ==
    /\ sessions[b][i].phase = "join"
    /\ LET o == handleAgentEvent(
                    [Now EXCEPT !.ss[b][i].sub = "ended",
                                !.ss[b][i].detailedState.isFinished = TRUE,
                                !.ss[b][i].detailedState.activity = "completed"],
                    b, i, "progress", "state")
       IN IF o.ss[b][i].status # "working"
          THEN Store(finally(o, b, i))
          ELSE Store([o EXCEPT !.ss[b][i].phase = "check"])
    /\ UNCHANGED <<config, nConfig, thrown, worktrees, shutdown>>

\* checkForChanges resolved
CheckDone(b, i, hasChanges) ==
    /\ sessions[b][i].phase = "check"
    /\ IF hasChanges
       THEN Store(finally(onEvent(
                    [Now EXCEPT !.ss[b][i].status = "success"],
                    b, i, "success", "duration"), b, i))
       ELSE Store(finally(onEvent(
                    [Now EXCEPT !.ss[b][i].status = "failed"],
                    b, i, "failed", "No files were modified"), b, i))
    /\ UNCHANGED <<config, nConfig, thrown, worktrees, shutdown>>

\* cleanupSession of the finally block resolved
FinDone(b, i) ==
    /\ sessions[b][i].phase = "fin"
    /\ Store([Now EXCEPT !.ss[b][i].phase = "done", !.ss[b][i].active = FALSE])
    /\ UNCHANGED <<config, nConfig, thrown, worktrees, shutdown>>

\* Faulty variant of Timeout: the session is failed without telling anyone.
TimeoutSilent(b, i) ==
    /\ sessions[b][i].timer
    /\ IF sessions[b][i].active /\ sessions[b][i].status = "working"
       THEN Store([Now EXCEPT !.ss[b][i].status = "failed",
                              !.ss[b][i].timer = FALSE,
                              !.ss[b][i].tk = "kill"])
       ELSE Store([Now EXCEPT !.ss[b][i].timer = FALSE])
    /\ UNCHANGED <<config, nConfig, thrown, worktrees, shutdown>>

\* The setTimeout of startSession fires: handleTimeout up to forceKillSession.
\* For a session that is no longer in the map, or not working, it returns at
\* once.
Timeout(b, i) ==
    /\ sessions[b][i].timer
    /\ IF sessions[b][i].active /\ sessions[b][i].status = "working"
       THEN Store([onEvent(
                     [Now EXCEPT !.ss[b][i].status = "failed",
                                 !.ss[b][i].timer = FALSE],
                     b, i, "failed", "Session timed out")
                    EXCEPT !.ss[b][i].tk = "kill"])
       ELSE Store([Now EXCEPT !.ss[b][i].timer = FALSE])
    /\ UNCHANGED <<config, nConfig, thrown, worktrees, shutdown>>

\* forceKillSession: lsof -ti:<serverPort> | xargs kill -9, when the session
\* has a port.  killed marks every session whose server has that port.
killByPort(o, port) ==
    IF port = <<>> THEN o
    ELSE [o EXCEPT !.ss = [c \in BattleIds |-> [j \in Units |->
              IF o.ss[c][j].serverPort = port
              THEN [o.ss[c][j] EXCEPT !.killed = TRUE]
              ELSE o.ss[c][j]]]]

\* forceKillSession of handleTimeout resolved
TimeoutKillDone(b, i) ==
    /\ sessions[b][i].tk = "kill"
    /\ Store(killByPort([Now EXCEPT !.ss[b][i].tk = "done",
                                    !.ss[b][i].active = FALSE],
                        sessions[b][i].serverPort))
    /\ UNCHANGED <<config, nConfig, thrown, worktrees, shutdown>>

\* The remote abort awaited by cancelSession settled: on success it goes on to
\* forceKillSession, on an error to catch and finally.
CancelAbortDone(b, i, ok) ==
    /\ sessions[b][i].ct = "abort"
    /\ IF ok
       THEN Store([Now EXCEPT !.ss[b][i].ct = "kill", !.ss[b][i].timer = FALSE])
       ELSE Store([Now EXCEPT !.ss[b][i].ct = "done", !.ss[b][i].active = FALSE])
    /\ UNCHANGED <<config, nConfig, thrown, worktrees, shutdown>>

\* forceKillSession of cancelSession resolved, then finally
CancelKillDone(b, i) ==
    /\ sessions[b][i].ct = "kill"
    /\ Store(killByPort([Now EXCEPT !.ss[b][i].ct = "done",
                                    !.ss[b][i].active = FALSE],
                        sessions[b][i].serverPort))
    /\ UNCHANGED <<config, nConfig, thrown, worktrees, shutdown>>

\* subscribeToEvents: the stream delivers an event to the running consumer
\* while the signal is not aborted; processEvent updates the detailed state
\* and an update is reported as progress.  seen counts the events consumed,
\* progress the onStateChange calls.  The token counters stay within
\* MaxTokens and the events of a session within MaxEvents.
ProcessEvent(b, i, evt) ==
    /\ sessions[b][i].sub = "running"
    /\ ~sessions[b][i].aborted
    /\ sessions[b][i].seen < MaxEvents
    /\ LET r == processEvent(sessions[b][i].detailedState, sessionId(b, i), evt)
           o == [Now EXCEPT !.ss[b][i].detailedState = r.ds,
                            !.ss[b][i].seen = @ + 1,
                            !.ss[b][i].progress = IF r.updated THEN @ + 1 ELSE @]
       IN /\ r.ds.tokens.input <= MaxTokens
          /\ r.ds.tokens.output <= MaxTokens
          /\ r.ds.tokens.reasoning <= MaxTokens
          /\ Store(IF r.updated
                   THEN handleAgentEvent(o, b, i, "progress", "state")
                   ELSE o)
    /\ UNCHANGED <<config, nConfig, thrown, worktrees, shutdown>>

\* The event stream of a running consumer ends or throws, or delivers an
\* event after the signal was aborted: subscribeToEvents returns.  While
\* runSession awaits eventPromise this is JoinDone.
StreamEnds(b, i) ==
    /\ sessions[b][i].sub = "running"
    /\ sessions[b][i].phase # "join"
    /\ Store([Now EXCEPT !.ss[b][i].sub = "ended"])
    /\ UNCHANGED <<config, nConfig, thrown, worktrees, shutdown>>

\* Faulty variant of respondToPermission: a session without a client is accepted.
respondToPermissionUnguarded(s) ==
    IF ~s.active
    THEN [s EXCEPT !.rpResult = "false"]
    ELSE [s EXCEPT !.rp = @ + 1]

\* respondToPermission up to its await: without a registered session that has a
\* client and a sessionId it returns false; otherwise the reply is posted to
\* the runtime.
respondToPermission(s) ==
    IF ~s.active \/ s.conn # 2
    THEN [s EXCEPT !.rpResult = "false"]
    ELSE [s EXCEPT !.rp = @ + 1]

\* POST /api/battles/:id/agents/:agentId/permission: 404 for a battle that is
\* not listed or an agent that is not in it, else respondToPermission.
PostPermission(b, i) ==
    /\ sessions[b][i].rp < MaxReplies
    /\ IF ~battles[b].inMap \/ i \notin 1..battles[b].units
       THEN UNCHANGED sessions
       ELSE sessions' = [sessions EXCEPT ![b][i] = respondToPermission(@)]
    /\ UNCHANGED <<config, nConfig, thrown, battles, agents, worktrees, shutdown,
                   cwd, chdirMutex, nextPort>>

\* Faulty variant of RespondDone: a successful reply clears the pending request
\* and leaves the activity alone.
RespondDoneKeepsActivity(b, i, ok) ==
    /\ sessions[b][i].rp > 0
    /\ IF ok
       THEN sessions' = [sessions EXCEPT
                ![b][i].rp = @ - 1,
                ![b][i].rpResult = "true",
                ![b][i].detailedState.pendingPermission = <<>>]
       ELSE sessions' = [sessions EXCEPT
                ![b][i].rp = @ - 1,
                ![b][i].rpResult = "false"]
    /\ UNCHANGED <<config, nConfig, thrown, battles, agents, worktrees, shutdown,
                   cwd, chdirMutex, nextPort>>

\* The runtime answered the reply posted by respondToPermission, or the call
\* threw
RespondDone(b, i, ok) ==
    /\ sessions[b][i].rp > 0
    /\ IF ok
       THEN sessions' = [sessions EXCEPT
                ![b][i].rp = @ - 1,
                ![b][i].rpResult = "true",
                ![b][i].detailedState.pendingPermission = <<>>,
                ![b][i].detailedState.activity = "responding"]
       ELSE sessions' = [sessions EXCEPT
                ![b][i].rp = @ - 1,
                ![b][i].rpResult = "false"]
    /\ UNCHANGED <<config, nConfig, thrown, battles, agents, worktrees, shutdown,
                   cwd, chdirMutex, nextPort>>

-----------------------------------------------------------------------------
\* BattleService: resumptions of handleAgentSuccess, cancelBattle, cleanup

\* worktreeService.commitAndPush settled.  It can only succeed on a working
\* copy that still exists.
CommitDone(b, i, g) ==
    /\ agents[b][i].h = "commit"
    /\ LET r == commitAndPush(g)
           o == [Now EXCEPT !.ag[b][i].git = r.git]
       IN /\ r.git # "none" => <<b, i>> \in worktrees
          /\ IF r.threw
             THEN Store(handleBattleDefeat(o, b, i))
             ELSE Store([o EXCEPT !.ag[b][i].h = "publish"])
    /\ UNCHANGED <<config, nConfig, thrown, worktrees, shutdown>>

\* githubService.createPullRequest settled
PublishDone(b, i, ok) ==
    /\ agents[b][i].h = "publish"
    /\ IF ok
       THEN Store(victory(Now, b, i))
       ELSE Store(handleBattleDefeat(Now, b, i))
    /\ UNCHANGED <<config, nConfig, thrown, worktrees, shutdown>>

\* The cancelSession awaited inside a loop of handleAgentSuccess or
\* handleBattleDefeat resolved: the loop goes on with the next agent.
LoopResume(b, i) ==
    /\ agents[b][i].h \in {"vwait", "dwait"}
    /\ sessions[b][agents[b][i].hIdx].ct = "done"
    /\ IF agents[b][i].h = "vwait"
       THEN Store(RunLoop(Now, b, agents[b][i].hIdx + 1, i, FALSE, i, "v"))
       ELSE Store(RunLoop(Now, b, agents[b][i].hIdx + 1, 0, FALSE, i, "d"))
    /\ UNCHANGED <<config, nConfig, thrown, worktrees, shutdown>>

\* Faulty variant of CancelBattle: the guard tests the map only, not the status.
CancelBattleAnyStatus(b) ==
    /\ IF ~battles[b].inMap
       THEN UNCHANGED <<battles, agents, sessions, cwd, chdirMutex, nextPort>>
       ELSE Store(RunLoop([Now EXCEPT !.bt[b].status = "defeat",
                                      !.bt[b].completedAt = @ + 1],
                          b, 1, 0, TRUE, 0, "c"))
    /\ UNCHANGED <<config, nConfig, thrown, worktrees, shutdown>>

\* cancelBattle (DELETE /api/battles/:id) up to its first await
CancelBattle(b) ==
    /\ IF ~battles[b].inMap \/ battles[b].status # "fighting"
       THEN UNCHANGED <<battles, agents, sessions, cwd, chdirMutex, nextPort>>
       ELSE Store(RunLoop([Now EXCEPT !.bt[b].status = "defeat",
                                      !.bt[b].completedAt = @ + 1],
                          b, 1, 0, TRUE, 0, "c"))
    /\ UNCHANGED <<config, nConfig, thrown, worktrees, shutdown>>

CancelBattleResume(b) ==
    /\ battles[b].cb = "wait"
    /\ sessions[b][battles[b].cbIdx].ct = "done"
    /\ Store(RunLoop(Now, b, battles[b].cbIdx + 1, 0, TRUE, 0, "c"))
    /\ UNCHANGED <<config, nConfig, thrown, worktrees, shutdown>>

\* The oldest pending worktreeService.cleanupBattle is carried out without a
\* failure of git or of the file system: the listed working copies and the
\* battle directory are removed, and the call returns.
CleanupBattleDone(b) ==
    /\ battles[b].cleanupPending > 0
    /\ battles[b].sweep = "idle"
    /\ worktrees' = worktrees \ (listedForCleanup(Now, b) \cup underBattleDir(Now, b))
    /\ Store(cleanupSettled(Now, b, cleanupBattleSettles(FALSE)))
    /\ UNCHANGED <<config, nConfig, thrown, shutdown>>

\* cleanupBattle step by step.  `git worktree list` has answered: on an error
\* the outer catch ends the call; else the sweep starts on the working copies
\* that match (or, when there is none, fs.rm is called at once).
CleanupListed(b, ok) ==
    /\ battles[b].cleanupPending > 0
    /\ battles[b].sweep = "idle"
    /\ IF ok
       THEN LET todo == listedForCleanup(Now, b)
            IN Store([Now EXCEPT !.bt[b].todo = todo,
                                 !.bt[b].sweep = IF todo = {} THEN "rm" ELSE "remove"])
       ELSE Store(cleanupSettled(Now, b, cleanupBattleSettles(TRUE)))
    /\ UNCHANGED <<config, nConfig, thrown, worktrees, shutdown>>

\* One `git worktree remove --force` of the sweep has settled, in the order of
\* the list.  A failure is logged and the sweep goes on; after the last one
\* fs.rm is called.
CleanupRemoved(b, ok) ==
    /\ battles[b].sweep = "remove"
    /\ LET w == CHOOSE v \in battles[b].todo :
                    \A u \in battles[b].todo :
                        v[1] < u[1] \/ (v[1] = u[1] /\ v[2] <= u[2])
           todo == battles[b].todo \ {w}
       IN /\ worktrees' = IF ok THEN worktrees \ {w} ELSE worktrees
          /\ Store([Now EXCEPT !.bt[b].todo = todo,
                               !.bt[b].sweep = IF todo = {} THEN "rm" ELSE "remove"])
    /\ UNCHANGED <<config, nConfig, thrown, shutdown>>

\* fs.rm(battleDir, { recursive: true, force: true }) has settled: on success
\* the directory and what is in it are gone; either way the call returns.
CleanupRmDone(b, ok) ==
    /\ battles[b].sweep = "rm"
    /\ worktrees' = IF ok THEN worktrees \ underBattleDir(Now, b) ELSE worktrees
    /\ Store(cleanupSettled(Now, b, cleanupBattleSettles(~ok)))
    /\ UNCHANGED <<config, nConfig, thrown, shutdown>>

\* Faulty variant of RemoveBattle: the route deletes whatever the status is.
RemoveBattleAnyStatus(b) ==
    /\ IF battles[b].inMap
       THEN battles' = [battles EXCEPT ![b].inMap = FALSE]
       ELSE UNCHANGED battles
    /\ UNCHANGED <<config, nConfig, thrown, agents, sessions, worktrees, shutdown,
                 cwd, chdirMutex, nextPort>>

\* DELETE /api/battles/:id/remove
RemoveBattle(b) ==
    /\ IF /\ battles[b].inMap
          /\ battles[b].status \notin {"pending", "fighting"}
       THEN battles' = [battles EXCEPT ![b].inMap = FALSE]
       ELSE UNCHANGED battles
    /\ UNCHANGED <<config, nConfig, thrown, agents, sessions, worktrees, shutdown,
                 cwd, chdirMutex, nextPort>>

Next ==
    \/ \E u \in Units : Configure(u)
    \/ StartBattle(MaxBattles, {nextId}, {1})
    \/ \E b \in BattleIds : WorktreeAdded(b)
    \/ \E b \in BattleIds : ProvisionFail(b)
    \/ \E b \in BattleIds, i \in Units : BootOk(b, i)
    \/ \E b \in BattleIds, i \in Units : BootFail(b, i)
    \/ \E b \in BattleIds, i \in Units : CreateOk(b, i)
    \/ \E b \in BattleIds, i \in Units : CreateFail(b, i)
    \/ \E b \in BattleIds, i \in Units : PromptReturn(b, i)
    \/ \E b \in BattleIds, i \in Units : PromptThrow(b, i)
    \/ \E b \in BattleIds, i \in Units : JoinDone(b, i)
    \/ \E b \in BattleIds, i \in Units, git \in GitStatus :
           CheckDone(b, i, checkForChanges(git))
    \/ \E b \in BattleIds, i \in Units : FinDone(b, i)
    \/ \E b \in BattleIds, i \in Units : Timeout(b, i)
    \/ \E b \in BattleIds, i \in Units : TimeoutKillDone(b, i)
    \/ \E b \in BattleIds, i \in Units, ok \in BOOLEAN : CancelAbortDone(b, i, ok)
    \/ \E b \in BattleIds, i \in Units : CancelKillDone(b, i)
    \/ \E b \in BattleIds, i \in Units, g \in GitRuns : CommitDone(b, i, g)
    \/ \E b \in BattleIds, i \in Units, ok \in BOOLEAN : PublishDone(b, i, ok)
    \/ \E b \in BattleIds, i \in Units : LoopResume(b, i)
    \/ \E b \in BattleIds : CancelBattle(b)
    \/ \E b \in BattleIds : CancelBattleResume(b)
    \/ \E b \in BattleIds : CleanupBattleDone(b)
    \/ \E b \in BattleIds : RemoveBattle(b)

Spec == Init /\ [][Next]_vars

\* Many races at once, each with one agent whose session stays in its
\* bootstrap.  The races run side by side up to the concurrency ceiling; a
\* race ends by cancelBattle or by a provisioning failure, and ended races are
\* removed from the list.
NextFleet ==
    \/ Configure(1)
    \/ StartBattle(MaxFleet, {nextId}, {1})
    \/ \E b \in BattleIds : WorktreeAdded(b)
    \/ \E b \in BattleIds : ProvisionFail(b)
    \/ \E b \in BattleIds : CancelBattle(b)
    \/ \E b \in BattleIds : CancelKillDone(b, 1)
    \/ \E b \in BattleIds : CancelBattleResume(b)
    \/ \E b \in BattleIds : CleanupBattleDone(b)
    \/ \E b \in BattleIds : RemoveBattle(b)

SpecFleet == Init /\ [][NextFleet]_vars

\* OpenCodeService.shutdown up to `await Promise.all(cancelPromises)`: a call
\* while the flag is set returns at once; otherwise the flag is set and
\* cancelSession is called on every registered session (a session whose
\* cancellation is already under way is awaited with that cancellation).
ShutdownCall ==
    IF shutdown.flag
    THEN UNCHANGED vars
    ELSE LET snap == {p \in BattleIds \X Units : sessions[p[1]][p[2]].active}
         IN /\ sessions' = [b \in BattleIds |-> [i \in Units |->
                   IF sessions[b][i].active /\ sessions[b][i].ct = "idle"
                   THEN cancelSession(sessions[b][i])
                   ELSE sessions[b][i]]]
            /\ shutdown' = [flag |-> TRUE,
                            pc |-> IF snap = {} THEN "done" ELSE "wait",
                            snap |-> snap]
            /\ UNCHANGED <<config, nConfig, thrown, battles, agents, worktrees,
                 cwd, chdirMutex, nextPort>>

\* Promise.all of shutdown resolved: every cancelSession it called has returned
ShutdownDone ==
    /\ shutdown.pc = "wait"
    /\ \A p \in shutdown.snap : sessions[p[1]][p[2]].ct = "done"
    /\ shutdown' = [shutdown EXCEPT !.pc = "done"]
    /\ UNCHANGED <<config, nConfig, thrown, battles, agents, sessions, worktrees,
                 cwd, chdirMutex, nextPort>>

\* Races whose sessions boot and run their prompt until they are cancelled,
\* with the service being shut down at any moment, before or after a race has
\* started its sessions.
NextShutdown ==
    \/ \E u \in Units : Configure(u)
    \/ StartBattle(MaxShutdownBattles, {nextId}, {1})
    \/ \E b \in BattleIds : WorktreeAdded(b)
    \/ \E b \in BattleIds, i \in Units : BootOk(b, i)
    \/ \E b \in BattleIds, i \in Units : CreateOk(b, i)
    \/ \E b \in BattleIds, i \in Units : FinDone(b, i)
    \/ \E b \in BattleIds, i \in Units, ok \in BOOLEAN : CancelAbortDone(b, i, ok)
    \/ \E b \in BattleIds, i \in Units : CancelKillDone(b, i)
    \/ \E b \in BattleIds : CleanupBattleDone(b)
    \/ ShutdownCall
    \/ ShutdownDone

SpecShutdown == Init /\ [][NextShutdown]_vars

\* One race with one agent whose session runs to its end while the runtime
\* reports token counts: per step (added up) and per whole message.
NextTokens ==
    \/ Configure(1)
    \/ StartBattle(MaxBattles, {nextId}, {1})
    \/ \E b \in BattleIds : WorktreeAdded(b)
    \/ \E b \in BattleIds, i \in Units : BootOk(b, i)
    \/ \E b \in BattleIds, i \in Units : CreateOk(b, i)
    \/ \E b \in BattleIds, i \in Units, evt \in StepFinish : ProcessEvent(b, i, evt)
    \/ \E b \in BattleIds, i \in Units, evt \in MessageUpdated : ProcessEvent(b, i, evt)
    \/ \E b \in BattleIds, i \in Units : PromptReturn(b, i)
    \/ \E b \in BattleIds, i \in Units : JoinDone(b, i)
    \/ \E b \in BattleIds, i \in Units, git \in GitStatus :
           CheckDone(b, i, checkForChanges(git))
    \/ \E b \in BattleIds, i \in Units : FinDone(b, i)

SpecTokens == Init /\ [][NextTokens]_vars

\* The same race while the runtime reports edited files and diff summaries
NextFiles ==
    \/ Configure(1)
    \/ StartBattle(MaxBattles, {nextId}, {1})
    \/ \E b \in BattleIds : WorktreeAdded(b)
    \/ \E b \in BattleIds, i \in Units : BootOk(b, i)
    \/ \E b \in BattleIds, i \in Units : CreateOk(b, i)
    \/ \E b \in BattleIds, i \in Units, evt \in FileEdited : ProcessEvent(b, i, evt)
    \/ \E b \in BattleIds, i \in Units, evt \in SessionDiff : ProcessEvent(b, i, evt)
    \/ \E b \in BattleIds, i \in Units : PromptReturn(b, i)
    \/ \E b \in BattleIds, i \in Units : JoinDone(b, i)
    \/ \E b \in BattleIds, i \in Units, git \in GitStatus :
           CheckDone(b, i, checkForChanges(git))
    \/ \E b \in BattleIds, i \in Units : FinDone(b, i)

SpecFiles == Init /\ [][NextFiles]_vars

\* The same race while the runtime asks for permissions and reports what the
\* agent is doing, with permission replies posted at any moment: before the
\* bootstrap, during the prompt, and after the session has finished or was
\* cancelled.
NextPermission ==
    \/ Configure(1)
    \/ StartBattle(MaxBattles, {nextId}, {1})
    \/ \E b \in BattleIds : WorktreeAdded(b)
    \/ \E b \in BattleIds, i \in Units : BootOk(b, i)
    \/ \E b \in BattleIds, i \in Units : CreateOk(b, i)
    \/ \E b \in BattleIds, i \in Units, evt \in Activity : ProcessEvent(b, i, evt)
    \/ \E b \in BattleIds, i \in Units, evt \in PermissionEvents :
           ProcessEvent(b, i, evt)
    \/ \E b \in BattleIds, i \in Units, evt \in StatusEvents : ProcessEvent(b, i, evt)
    \/ \E b \in BattleIds, i \in Units : PromptReturn(b, i)
    \/ \E b \in BattleIds, i \in Units : JoinDone(b, i)
    \/ \E b \in BattleIds, i \in Units, git \in GitStatus :
           CheckDone(b, i, checkForChanges(git))
    \/ \E b \in BattleIds, i \in Units : FinDone(b, i)
    \/ \E b \in BattleIds : CancelBattle(b)
    \/ \E b \in BattleIds, i \in Units, ok \in BOOLEAN : CancelAbortDone(b, i, ok)
    \/ \E b \in BattleIds, i \in Units : CancelKillDone(b, i)
    \/ \E b \in BattleIds : RemoveBattle(b)
    \/ \E b \in BattleIds, i \in Units : PostPermission(b, i)
    \/ \E b \in BattleIds, i \in Units, ok \in BOOLEAN : RespondDone(b, i, ok)

SpecPermission == Init /\ [][NextPermission]_vars

\* Events whose session identifier sits inside part or inside info, beside a
\* top-level identifier or without one, events that name no session, and
\* events of kinds processEvent has no case for.
NestedParts == [type : {"text", "reasoning"}, sessionID : SessionIds]
NestedInfos ==
    [role : {"assistant"}, sessionID : SessionIds,
     tokens : {<<[input |-> <<1>>, output |-> <<>>, reasoning |-> <<>>]>>}]
Nested ==
    [type : {"message.part.updated"}, part : NestedParts]
    \cup [type : {"message.part.updated"}, sessionID : SessionIds, part : NestedParts]
    \cup [type : {"message.updated"}, info : NestedInfos]
    \cup [type : {"session.idle", "session.error"}]
    \cup [type : {"session.error", "todo.updated"}, sessionID : SessionIds]
RecognizedTypes ==
    {"message.part.updated", "message.updated", "permission.updated",
     "permission.replied", "session.status", "session.idle", "session.error",
     "file.edited", "session.diff", "todo.updated"}
Unrecognized ==
    [type : {"server.connected", "message.removed"}, sessionID : SessionIds]
    \cup [type : {"server.connected"}]
    \cup [type : {"message.removed"}, info : [sessionID : SessionIds]]

\* One agent whose consumer receives events of every correlation and of
\* unknown kinds while its prompt returns or fails, its stream ends, its timer
\* fires and its battle is cancelled.
NextStream ==
    \/ Configure(1)
    \/ StartBattle(MaxBattles, {nextId}, {1})
    \/ \E b \in BattleIds : WorktreeAdded(b)
    \/ \E b \in BattleIds, i \in Units : BootOk(b, i)
    \/ \E b \in BattleIds, i \in Units : CreateOk(b, i)
    \/ \E b \in BattleIds, i \in Units, evt \in Nested : ProcessEvent(b, i, evt)
    \/ \E b \in BattleIds, i \in Units, evt \in Unrecognized : ProcessEvent(b, i, evt)
    \/ \E b \in BattleIds, i \in Units, evt \in StatusEvents : ProcessEvent(b, i, evt)
    \/ \E b \in BattleIds, i \in Units : StreamEnds(b, i)
    \/ \E b \in BattleIds, i \in Units : PromptReturn(b, i)
    \/ \E b \in BattleIds, i \in Units : PromptThrow(b, i)
    \/ \E b \in BattleIds, i \in Units : JoinDone(b, i)
    \/ \E b \in BattleIds, i \in Units, git \in GitStatus :
           CheckDone(b, i, checkForChanges(git))
    \/ \E b \in BattleIds, i \in Units : FinDone(b, i)
    \/ \E b \in BattleIds, i \in Units : Timeout(b, i)
    \/ \E b \in BattleIds, i \in Units : TimeoutKillDone(b, i)
    \/ \E b \in BattleIds : CancelBattle(b)
    \/ \E b \in BattleIds, i \in Units, ok \in BOOLEAN : CancelAbortDone(b, i, ok)
    \/ \E b \in BattleIds, i \in Units : CancelKillDone(b, i)

SpecStream == Init /\ [][NextStream]_vars

\* Races side by side, for the same issue or for different ones, whose working
\* copies are created one by one and swept step by step after a cancelBattle,
\* with git and the file system failing at any step.  The sessions stay in
\* their bootstrap.
NextWorktrees ==
    \/ \E u \in Units : Configure(u)
    \/ StartBattle(MaxWorktreeBattles, Nanoids, Issues)
    \/ \E b \in BattleIds : WorktreeAdded(b)
    \/ \E b \in BattleIds : ProvisionFail(b)
    \/ \E b \in BattleIds : CancelBattle(b)
    \/ \E b \in BattleIds, i \in Units : CancelKillDone(b, i)
    \/ \E b \in BattleIds : CancelBattleResume(b)
    \/ \E b \in BattleIds, ok \in BOOLEAN : CleanupListed(b, ok)
    \/ \E b \in BattleIds, ok \in BOOLEAN : CleanupRemoved(b, ok)
    \/ \E b \in BattleIds, ok \in BOOLEAN : CleanupRmDone(b, ok)

SpecWorktrees == Init /\ [][NextWorktrees]_vars

\* One race that is won or lost by its agents' reports, with the working
\* copies swept step by step and git and the file system failing at any step.
NextCleanup ==
    \/ \E u \in Units : Configure(u)
    \/ StartBattle(MaxBattles, {nextId}, {1})
    \/ \E b \in BattleIds : WorktreeAdded(b)
    \/ \E b \in BattleIds, i \in Units : BootOk(b, i)
    \/ \E b \in BattleIds, i \in Units : CreateOk(b, i)
    \/ \E b \in BattleIds, i \in Units : PromptReturn(b, i)
    \/ \E b \in BattleIds, i \in Units : JoinDone(b, i)
    \/ \E b \in BattleIds, i \in Units, git \in GitStatus :
           CheckDone(b, i, checkForChanges(git))
    \/ \E b \in BattleIds, i \in Units : FinDone(b, i)
    \/ \E b \in BattleIds, i \in Units, ok \in BOOLEAN : CancelAbortDone(b, i, ok)
    \/ \E b \in BattleIds, i \in Units : CancelKillDone(b, i)
    \/ \E b \in BattleIds, i \in Units, g \in GitRuns : CommitDone(b, i, g)
    \/ \E b \in BattleIds, i \in Units, ok \in BOOLEAN : PublishDone(b, i, ok)
    \/ \E b \in BattleIds, i \in Units : LoopResume(b, i)
    \/ \E b \in BattleIds, ok \in BOOLEAN : CleanupListed(b, ok)
    \/ \E b \in BattleIds, ok \in BOOLEAN : CleanupRemoved(b, ok)
    \/ \E b \in BattleIds, ok \in BOOLEAN : CleanupRmDone(b, ok)

SpecCleanup == Init /\ [][NextCleanup]_vars

\* One race left to itself: nobody cancels it, every remote call can succeed
\* or fail and every timer can fire.
NextLive ==
    \/ \E u \in Units : Configure(u)
    \/ StartBattle(MaxBattles, {nextId}, {1})
    \/ \E b \in BattleIds : WorktreeAdded(b)
    \/ \E b \in BattleIds, i \in Units : BootOk(b, i)
    \/ \E b \in BattleIds, i \in Units : BootFail(b, i)
    \/ \E b \in BattleIds, i \in Units : CreateOk(b, i)
    \/ \E b \in BattleIds, i \in Units : CreateFail(b, i)
    \/ \E b \in BattleIds, i \in Units : PromptReturn(b, i)
    \/ \E b \in BattleIds, i \in Units : PromptThrow(b, i)
    \/ \E b \in BattleIds, i \in Units : JoinDone(b, i)
    \/ \E b \in BattleIds, i \in Units, git \in GitStatus :
           CheckDone(b, i, checkForChanges(git))
    \/ \E b \in BattleIds, i \in Units : FinDone(b, i)
    \/ \E b \in BattleIds, i \in Units : Timeout(b, i)
    \/ \E b \in BattleIds, i \in Units : TimeoutKillDone(b, i)
    \/ \E b \in BattleIds, i \in Units, ok \in BOOLEAN : CancelAbortDone(b, i, ok)
    \/ \E b \in BattleIds, i \in Units : CancelKillDone(b, i)
    \/ \E b \in BattleIds, i \in Units, g \in GitRuns : CommitDone(b, i, g)
    \/ \E b \in BattleIds, i \in Units, ok \in BOOLEAN : PublishDone(b, i, ok)
    \/ \E b \in BattleIds, i \in Units : LoopResume(b, i)
    \/ \E b \in BattleIds : CleanupBattleDone(b)

\* Every awaited call settles: createOpencode has its own time limit, git and
\* GitHub calls and the teardown calls return.  The calls to the runtime
\* that have no time limit of their own (session.create, session.prompt, the
\* end of the event stream, the status check that follows) settle or the
\* timer of the session fires.
FairLive ==
    \A b \in 1..MaxBattles, i \in Units :
        /\ WF_vars(BootOk(b, i) \/ BootFail(b, i))
        /\ WF_vars(CreateOk(b, i) \/ CreateFail(b, i) \/ Timeout(b, i))
        /\ WF_vars(PromptReturn(b, i) \/ PromptThrow(b, i) \/ Timeout(b, i))
        /\ WF_vars(JoinDone(b, i) \/ Timeout(b, i))
        /\ WF_vars(\E git \in GitStatus : CheckDone(b, i, checkForChanges(git)))
        /\ WF_vars(\E g \in GitRuns : CommitDone(b, i, g))
        /\ WF_vars(\E ok \in BOOLEAN : PublishDone(b, i, ok))
        /\ WF_vars(LoopResume(b, i))
        /\ WF_vars(\E ok \in BOOLEAN : CancelAbortDone(b, i, ok))
        /\ WF_vars(CancelKillDone(b, i))

SpecLive == Init /\ [][NextLive]_vars /\ FairLive
-----------------------------------------------------------------------------
\* Vocabulary of the claims

Terminal == {"victory", "defeat"}
AgentTerminal == {"success", "failed", "cancelled"}

\* A step in which the session of agent i of battle b raises a failed event
FailedEvent(b, i) ==
    \/ /\ sessions[b][i].active /\ sessions[b][i].status = "working"
       /\ Timeout(b, i)
    \/ CheckDone(b, i, FALSE)
    \/ /\ ~sessions[b][i].aborted
       /\ BootFail(b, i) \/ CreateFail(b, i) \/ PromptThrow(b, i)

\* C1: in a battle where several agents report success, one agent only is ever
\* recorded as winningAgentId (once set it is never replaced), and no second
\* agent is ever marked success: the later reports are discarded.
C1_SingleWinner ==
    [][\A b \in BattleIds :
          /\ battles[b].winningAgentId # 0
                => battles'[b].winningAgentId = battles[b].winningAgentId
          /\ Cardinality({i \in Units : agents'[b][i].status = "success"}) <= 1]_vars

\* C2: a battle's status moves only pending -> fighting -> victory | defeat or
\* pending -> defeat, and a victory or defeat is never changed again.
C2_StatusMonotone ==
    [][\A b \in BattleIds :
          \/ battles'[b].status = battles[b].status
          \/ battles[b].status = "none" /\ battles'[b].status = "pending"
          \/ battles[b].status = "pending" /\ battles'[b].status \in {"fighting", "defeat"}
          \/ battles[b].status = "fighting" /\ battles'[b].status \in Terminal]_vars

\* C3: when every agent of a battle is failed or cancelled the battle is
\* defeat, and the defeat transition was performed once: completedAt stamped
\* once, cleanupBattle called at most once.
C3_DefeatOnce ==
    \A b \in BattleIds :
        (/\ battles[b].units > 0
         /\ \A i \in 1..battles[b].units :
                agents[b][i].status \in {"failed", "cancelled"})
        => /\ battles[b].status = "defeat"
           /\ battles[b].completedAt = 1
           /\ battles[b].cleanupCalls <= 1

\* C4: a failed event for a battle that is already victory or defeat changes
\* nothing: not the battle (status, completedAt, cleanup calls), not an agent
\* (status, error), not a working copy, not another agent's session.
C4_LateFailedNoOp ==
    [][\A b \in BattleIds, i \in Units :
          (battles[b].status \in Terminal /\ FailedEvent(b, i))
          => /\ battles' = battles
             /\ agents' = agents
             /\ worktrees' = worktrees
             /\ \A k \in Units \ {i} : sessions'[b][k] = sessions[b][k]]_vars

\* C5: an agent's status moves only pending -> working -> success | failed |
\* cancelled, and a terminal status is never changed again.
C5_AgentMonotone ==
    [][\A b \in BattleIds, i \in Units :
          \/ agents'[b][i].status = agents[b][i].status
          \/ agents[b][i].status = "none" /\ agents'[b][i].status \in {"pending", "working"}
          \/ agents[b][i].status = "pending" /\ agents'[b][i].status = "working"
          \/ agents[b][i].status = "working" /\ agents'[b][i].status \in AgentTerminal]_vars

\* Battles that are listed and pending or fighting
ActiveBattles ==
    {b \in BattleIds : battles[b].inMap /\ battles[b].status \in {"pending", "fighting"}}

\* C6: while the number of pending or fighting battles is at the ceiling, no
\* step registers a battle, creates an agent, starts a session or adds a
\* working copy for a new battle, and a startBattle call throws the capacity
\* error and changes nothing else.
C6_CapacityRejects ==
    [][Cardinality(ActiveBattles) >= MAX_CONCURRENT_BATTLES
          => /\ \A b \in BattleIds :
                   battles[b].status = "none"
                   => /\ battles'[b] = NoBattle
                      /\ agents'[b] = agents[b]
                      /\ sessions'[b] = sessions[b]
                      /\ \A w \in worktrees' : w[1] # b
             /\ StartBattle(MaxFleet, {nextId}, {1})
                   => /\ thrown' = "Maximum concurrent battles reached"
                      /\ UNCHANGED <<config, nConfig, battles, agents, sessions,
                                     worktrees>>]_vars

C6_Witness ==
    /\ thrown = "Maximum concurrent battles reached"
    /\ Cardinality(ActiveBattles) = MAX_CONCURRENT_BATTLES
    /\ \E b \in BattleIds : battles[b].status = "none"
    /\ \E b \in BattleIds : battles[b].status = "pending"
    /\ \E b \in BattleIds : battles[b].status = "fighting"

\* A step of cancelBattle: the call or a resumption of its loop
CancelStep(b) == CancelBattle(b) \/ CancelBattleResume(b)

\* C7: cancelBattle on a fighting battle sets defeat; every agent that is
\* pending or working while cancelBattle runs leaves that status only by being
\* set to cancelled (with its session cancelled); when cancelBattle has
\* finished no agent is pending or working and cleanupBattle was called;
\* cancelBattle changes no terminal agent.
C7_EveryAgentCancelled ==
    [][\A b \in BattleIds :
          /\ (battles[b].inMap /\ battles[b].status = "fighting" /\ CancelBattle(b))
                => battles'[b].status = "defeat"
          /\ \A i \in Units :
                (/\ battles'[b].cb \in {"wait", "done"}
                 /\ agents[b][i].status \in {"pending", "working"}
                 /\ agents'[b][i].status # agents[b][i].status)
                => /\ agents'[b][i].status = "cancelled"
                   /\ sessions[b][i].active => sessions'[b][i].aborted
          /\ battles'[b].cb = "done"
                => /\ \A i \in Units : agents'[b][i].status \notin {"pending", "working"}
                   /\ battles'[b].cleanupCalls >= 1
          /\ CancelStep(b)
                => \A i \in Units : agents[b][i].status \in AgentTerminal
                                       => agents'[b][i] = agents[b][i]]_vars

\* C8: cancelBattle on a battle that is unknown (never created, or removed),
\* pending, victory or defeat changes nothing at all.
C8_CancelNoOp ==
    [][\A b \in BattleIds :
          ((~battles[b].inMap \/ battles[b].status # "fighting") /\ CancelBattle(b))
          => UNCHANGED vars]_vars

C8_Witness ==
    \E b \in BattleIds :
        /\ battles[b].inMap
        /\ battles[b].status = "defeat"
        /\ battles[b].cb = "done"
        /\ \E c \in BattleIds : ~battles[c].inMap

\* commitAndPush or createPullRequest rejects inside handleAgentSuccess
PublishFailed(b, i) ==
    \/ /\ agents[b][i].h = "commit"
       /\ \E g \in GitRuns : commitAndPush(g).threw /\ CommitDone(b, i, g)
    \/ PublishDone(b, i, FALSE)

C10_ProvisionFailure ==
    [][\A b \in BattleIds :
          /\ ProvisionFail(b)
                => /\ battles[b].status = "pending"
                   /\ battles'[b].status = "defeat"
                   /\ battles'[b].startPc = "threw"
          /\ battles'[b].startPc = "provisioning"
                => /\ battles'[b].status = "pending"
                   /\ battles'[b].units = 0
          /\ battles'[b].startPc = "threw"
                => /\ battles[b].startPc \in {"provisioning", "threw"}
                   /\ battles'[b].status = "defeat"
                   /\ battles'[b].units = 0
                   /\ \A i \in Units : /\ agents'[b][i] = NoAgent
                                       /\ sessions'[b][i] = NoSession]_vars

C10_Witness ==
    \E b \in BattleIds :
        /\ battles[b].startPc = "threw"
        /\ battles[b].status = "defeat"
        /\ battles[b].prov = 1
        /\ battles[b].unitCount = 2

\* No handler of battle b is suspended: startBattle has returned or thrown,
\* and no handleAgentSuccess, handleBattleDefeat or cancelBattle awaits.
Quiescent(b) ==
    /\ battles[b].startPc \in {"returned", "threw"}
    /\ battles[b].cb # "wait"
    /\ \A i \in Units : agents[b][i].h \notin {"commit", "publish", "vwait", "dwait"}

\* C11: every transition of a battle into victory or defeat is followed by a
\* release of its working copies: once the battle is victory or defeat, its
\* handlers have run to their end and no cleanupBattle is still pending, no
\* working copy of the battle is left.
C11_TerminalReleases ==
    \A b \in BattleIds :
        (/\ battles[b].status \in Terminal
         /\ Quiescent(b)
         /\ battles[b].cleanupPending = 0)
        => \A w \in worktrees : w[1] # b

\* C12: a failed event for agent i while another agent of the battle is
\* neither failed nor cancelled changes, of the battle and its agents, only
\* agent i's status (to failed) and error: the battle record is unchanged (a
\* fighting battle stays fighting), no sibling agent changes and no sibling
\* session is touched, except that a sibling waiting for the bootstrap
\* section may enter it when the failed bootstrap of agent i leaves it.
C12_FailureIsLocal ==
    [][\A b \in BattleIds, i \in Units :
          (/\ FailedEvent(b, i)
           /\ battles[b].inMap
           /\ i \in 1..battles[b].units
           /\ \E k \in 1..battles[b].units :
                  k # i /\ agents[b][k].status \notin {"failed", "cancelled"})
          => /\ battles'[b] = battles[b]
             /\ agents'[b][i].status = "failed"
             /\ agents'[b][i] = [agents[b][i] EXCEPT !.status = "failed",
                                                      !.error = agents'[b][i].error]
             /\ \A k \in Units \ {i} :
                   /\ agents'[b][k] = agents[b][k]
                   /\ \/ sessions'[b][k] = sessions[b][k]
                      \/ /\ sessions[b][k].phase = "queued"
                         /\ sessions'[b][k] =
                               [sessions[b][k] EXCEPT !.phase = "boot",
                                                      !.originalCwd = OriginalCwd]
             /\ worktrees' = worktrees]_vars

C12_Witness ==
    \E b \in BattleIds :
        /\ battles[b].status = "fighting"
        /\ battles[b].cleanupCalls = 0
        /\ agents[b][1].status = "failed" /\ agents[b][1].error # "none"
        /\ agents[b][2].status = "working"
        /\ sessions[b][2].active /\ ~sessions[b][2].aborted

\* A step of the victory path of agent i's handleAgentSuccess
VictoryStep(b, i) ==
    PublishDone(b, i, TRUE) \/ (agents[b][i].h = "vwait" /\ LoopResume(b, i))

AgentList(b) == {k \in Units : agents[b][k].status # "none"}

\* C14: a battle lists no agent while it is pending and after a provisioning
\* failure; once startBattle has returned (the battle has become fighting) it
\* lists exactly unitCount agents, with pairwise-distinct ids and the ordinals
\* 0..unitCount-1, and the list never changes afterwards.
C14_AgentList ==
    [][\A b \in BattleIds :
          /\ (battles'[b].status = "pending" \/ battles'[b].startPc = "threw")
                => battles'[b].units = 0 /\ AgentList(b)' = {}
          /\ battles'[b].startPc = "returned"
                => /\ battles'[b].unitCount >= 1
                   /\ battles'[b].units = battles'[b].unitCount
                   /\ AgentList(b)' = 1..battles'[b].unitCount
                   /\ Cardinality({agentId(b, k) : k \in AgentList(b)'})
                         = battles'[b].unitCount
                   /\ {unitIndex(k) : k \in AgentList(b)'}
                         = 0..(battles'[b].unitCount - 1)
          /\ (battles[b].status = "pending" /\ battles'[b].status = "fighting")
                => battles'[b].startPc = "returned"
          /\ battles[b].startPc = "returned"
                => /\ AgentList(b)' = AgentList(b)
                   /\ battles'[b].units = battles[b].units
                   /\ battles'[b].startPc = "returned"]_vars

C14_Witness ==
    \E b \in BattleIds :
        /\ battles[b].status = "victory"
        /\ battles[b].unitCount = 2
        /\ AgentList(b) = {1, 2}
        /\ ~battles[b].inMap

\* C15: when the prompt has returned and the session is still working the
\* working copy is checked, and the session then reports success exactly when
\* `git status` showed changes; when it showed none, or could not be run, the
\* session reports failed with 'No files were modified'.  (The result of the
\* prompt call is not read, so what the worker reported plays no part.)
C15_SuccessIffChanges ==
    [][\A b \in BattleIds, i \in Units :
          /\ JoinDone(b, i)
                => /\ sessions'[b][i].nEv = sessions[b][i].nEv
                   /\ sessions'[b][i].phase = "check"
                         <=> sessions[b][i].status = "working"
          /\ \A git \in GitStatus :
                CheckDone(b, i, checkForChanges(git))
                => /\ sessions'[b][i].nEv = sessions[b][i].nEv + 1
                   /\ sessions'[b][i].ev = "success" <=> git = "dirty"
                   /\ sessions'[b][i].status = sessions'[b][i].ev
                   /\ git # "dirty"
                         => /\ sessions'[b][i].ev = "failed"
                            /\ sessions'[b][i].evData = "No files were modified"
                            /\ battles[b].inMap => agents'[b][i].status = "failed"
                   /\ (git = "dirty" /\ battles[b].inMap
                                     /\ battles[b].status = "fighting")
                         => agents'[b][i].status = "success"]_vars

C15_Witness ==
    \E b \in BattleIds :
        /\ sessions[b][1].ev = "success" /\ agents[b][1].status = "success"
        /\ sessions[b][2].ev = "failed"
        /\ sessions[b][2].evData = "No files were modified"
        /\ agents[b][2].status = "failed"

\* The timer of session i fires while the session is registered and working
TimeoutFires(b, i) ==
    /\ sessions[b][i].active /\ sessions[b][i].status = "working"
    /\ Timeout(b, i)

\* C16: when the timer fires on a registered, working session, the session is
\* marked failed and one failed event ('Session timed out') is delivered, so
\* that the agent of a listed battle becomes failed, and handleTimeout goes on
\* to forceKillSession, after which the session is out of the registry; when
\* the timer fires on a session that is not registered or not working,
\* nothing changes.
C16_Timeout ==
    [][\A b \in BattleIds, i \in Units :
          /\ TimeoutFires(b, i)
                => /\ sessions'[b][i].status = "failed"
                   /\ sessions'[b][i].ev = "failed"
                   /\ sessions'[b][i].evData = "Session timed out"
                   /\ sessions'[b][i].nEv = sessions[b][i].nEv + 1
                   /\ sessions'[b][i].tk = "kill"
                   /\ battles[b].inMap => agents'[b][i].status = "failed"
          /\ TimeoutKillDone(b, i) => ~sessions'[b][i].active
          /\ sessions[b][i].tk = "done" => ~sessions'[b][i].active
          /\ (Timeout(b, i) /\ ~TimeoutFires(b, i))
                => /\ battles' = battles /\ agents' = agents
                   /\ worktrees' = worktrees
                   /\ sessions' = [sessions EXCEPT ![b][i].timer = FALSE]]_vars

C16_Witness ==
    \E b \in BattleIds :
        /\ sessions[b][1].tk = "done" /\ ~sessions[b][1].active
        /\ sessions[b][1].evData = "Session timed out"
        /\ agents[b][1].status = "failed"
        /\ sessions[b][2].ct = "done" /\ ~sessions[b][2].active
        /\ sessions[b][2].nEv = 0
        /\ sessions[b][2].phase = "prompt" /\ ~sessions[b][2].timer

\* C17: on a timeout or a cancel of a session (every started session has a
\* port), the forced kill of the process on that port is reached: when
\* handleTimeout or cancelSession has finished, the kill has been run.
C17_ForcedKillReached ==
    \A b \in BattleIds, i \in Units :
        (sessions[b][i].ct = "done" \/ sessions[b][i].tk = "done")
        => sessions[b][i].killed

\* C18: once cancelSession has been called on a session, the session delivers
\* no success or failed event any more.
C18_NoEventAfterCancel ==
    [][\A b \in BattleIds, i \in Units :
          sessions[b][i].ct # "idle"
          => sessions'[b][i].nEv = sessions[b][i].nEv]_vars

\* C19: cancelSession on an agent id whose session is unknown (not
\* registered), has already finished (it has reported success or failed) or
\* has already been cancelled is a no-op: no step starts a cancellation (a
\* remote abort or a kill) on such a session.
C19_CancelSessionNoOp ==
    [][\A b \in BattleIds, i \in Units :
          (/\ sessions[b][i].ct \in {"idle", "done"}
           /\ \/ ~sessions[b][i].active
              \/ sessions[b][i].status \in {"success", "failed"})
          => sessions'[b][i].ct = sessions[b][i].ct]_vars

\* C20: once shutdown() has completed no session is registered; from the
\* moment shutdown has begun no session is registered any more, and every
\* startSession call registers nothing and reports failed ('Service is
\* shutting down') at once; a second shutdown() call changes nothing.
C20_Shutdown ==
    [][/\ shutdown'.pc = "done"
             => \A b \in BattleIds, i \in Units : ~sessions'[b][i].active
       /\ shutdown.flag
             => /\ shutdown'.flag
                /\ \A b \in BattleIds, i \in Units :
                      ~sessions[b][i].active => ~sessions'[b][i].active
                /\ \A b \in BattleIds :
                      (WorktreeAdded(b) /\ battles'[b].startPc = "returned")
                      => \A i \in 1..battles'[b].units :
                            /\ sessions'[b][i].phase = "none"
                            /\ sessions'[b][i].ev = "failed"
                            /\ sessions'[b][i].evData = "Service is shutting down"
                            /\ sessions'[b][i].nEv = 1
                            /\ agents'[b][i].status = "failed"
                /\ ShutdownCall => UNCHANGED vars]_vars

C20_Witness ==
    /\ shutdown.pc = "done"
    /\ Cardinality(shutdown.snap) = 2
    /\ \E p \in shutdown.snap : sessions[p[1]][p[2]].conn = 2
    /\ \E b \in BattleIds :
          /\ battles[b].units = 2
          /\ \A i \in 1..2 : /\ sessions[b][i].evData = "Service is shutting down"
                              /\ agents[b][i].status = "failed"
          /\ battles[b].status = "defeat"

\* The sessions that are inside createServer: directory switched, bootstrap
\* awaited, directory not yet restored
InCreateServer ==
    {p \in BattleIds \X Units : sessions[p[1]][p[2]].phase = "boot"}

\* C29: at most one session at a time is inside the switch-directory ->
\* bootstrap -> restore-directory section; while a session is inside, the
\* process works in that session's working copy; whenever no session is
\* inside, the process is back in its original directory, also after a
\* bootstrap that failed.
C29_ChdirSerialized ==
    /\ Cardinality(InCreateServer) <= 1
    /\ \A p \in InCreateServer : cwd = worktreePath(p[1], p[2])
    /\ InCreateServer = {} => cwd = OriginalCwd

C29_Witness ==
    /\ InCreateServer = {}
    /\ cwd = OriginalCwd
    /\ \E b \in BattleIds, i, k \in Units :
          /\ sessions[b][i].conn = 0
          /\ sessions[b][i].ev = "failed"
          /\ sessions[b][i].evData = "error"
          /\ sessions[b][k].conn >= 1

TokenKinds == {"input", "output", "reasoning"}

\* C21: when a whole-message (assistant message.updated) token report is
\* processed, each of the input, output and reasoning counters becomes the
\* larger of its stored value and the reported value (a missing value counts
\* as 0), never their sum; a report that is not above the stored value, such
\* as a re-delivered one, leaves the counter unchanged.
C21_TokensMax ==
    [][\A b \in BattleIds, i \in Units, evt \in MessageUpdated :
          (/\ isOurSession(evt, sessionId(b, i))
           /\ evt.info.role = "assistant"
           /\ evt.info.tokens # <<>>
           /\ ProcessEvent(b, i, evt))
          => \A c \in TokenKinds :
                LET stored == sessions[b][i].detailedState.tokens[c]
                    reported == OrZero(evt.info.tokens[1][c])
                    new == sessions'[b][i].detailedState.tokens[c]
                IN /\ new >= stored
                   /\ new >= reported
                   /\ new \in {stored, reported}
                   /\ reported <= stored => new = stored]_vars

C21_Witness ==
    \E b \in BattleIds, i \in Units :
        /\ sessions[b][i].phase = "prompt"
        /\ sessions[b][i].detailedState.tokens =
               [input |-> MaxTokens, output |-> 1, reasoning |-> 0]

\* The paths of a list, and the sum of a line count over a diff summary
SetOf(list) == {list[k] : k \in 1..Len(list)}
RECURSIVE Total(_, _)
Total(diffs, field) ==
    IF diffs = <<>> THEN 0
    ELSE OrZero(Head(diffs)[field]) + Total(Tail(diffs), field)

\* C22: the modified-file list never holds a path twice; a file-edit event
\* adds its path to the list (if new) and leaves the line counts alone; a
\* diff summary adds its paths (if new) and sets the added and deleted line
\* counts to the sums over that summary only, whatever they were before.
C22_FilesAndLines ==
    [][\A b \in BattleIds, i \in Units :
          LET old == sessions[b][i].detailedState
              new == sessions'[b][i].detailedState
          IN /\ \A k, l \in 1..Len(new.filesModified) :
                    k # l => new.filesModified[k] # new.filesModified[l]
             /\ \A evt \in FileEdited :
                    (isOurSession(evt, sessionId(b, i)) /\ ProcessEvent(b, i, evt))
                    => /\ SetOf(new.filesModified) =
                             SetOf(old.filesModified) \cup {evt.file}
                       /\ new.linesAdded = old.linesAdded
                       /\ new.linesDeleted = old.linesDeleted
             /\ \A evt \in SessionDiff :
                    (isOurSession(evt, sessionId(b, i)) /\ ProcessEvent(b, i, evt))
                    => /\ SetOf(new.filesModified) =
                             SetOf(old.filesModified)
                             \cup {evt.diff[k].file : k \in 1..Len(evt.diff)}
                       /\ new.linesAdded = Total(evt.diff, "additions")
                       /\ new.linesDeleted = Total(evt.diff, "deletions")]_vars

C22_Witness ==
    \E b \in BattleIds, i \in Units :
        /\ Len(sessions[b][i].detailedState.filesModified) = Cardinality(Files)
        /\ sessions[b][i].detailedState.linesAdded = 0
        /\ sessions[b][i].detailedState.linesDeleted = MaxLines

\* C23: a permission reply for an agent without an active session (no entry
\* in activeSessions: never started, finished or cancelled; or an entry that
\* has no client and session id yet) returns false, posts nothing to the
\* runtime and changes no detailed state; a reply whose post fails returns
\* false and leaves the pending permission and the activity as they are; a
\* reply whose post succeeds returns true, clears the pending permission and
\* sets the activity to responding.
C23_PermissionReply ==
    [][\A b \in BattleIds, i \in Units :
          LET s == sessions[b][i]
              t == sessions'[b][i]
          IN /\ (/\ battles[b].inMap /\ i \in 1..battles[b].units
                 /\ ~s.active \/ s.conn # 2
                 /\ PostPermission(b, i))
                => /\ t.rpResult = "false"
                   /\ t.rp = s.rp
                   /\ t.detailedState = s.detailedState
             /\ PostPermission(b, i) => t.detailedState = s.detailedState
             /\ RespondDone(b, i, FALSE)
                => /\ t.rpResult = "false"
                   /\ t.detailedState = s.detailedState
             /\ RespondDone(b, i, TRUE)
                => /\ t.rpResult = "true"
                   /\ t.detailedState.pendingPermission = <<>>
                   /\ t.detailedState.activity = "responding"]_vars

C23_Witness ==
    \E b \in BattleIds, i \in Units :
        /\ sessions[b][i].active
        /\ sessions[b][i].conn < 2
        /\ sessions[b][i].rp = 0
        /\ sessions[b][i].rpResult = "false"
-----------------------------------------------------------------------------
\* The working copies created so far (also those swept since: their branches
\* stay in the main repository), with the path and the branch of each.
Created == {w \in BattleIds \X Units : w[2] <= battles[w[1]].prov}
pathOf(w) == agentDir(nanoid(battles[w[1]].id), unitIndex(w[2]))
branchOf(w) == branchName(battles[w[1]].issueNumber, nanoid(battles[w[1]].id),
                          unitIndex(w[2]))

\* C24: the working copies created for a battle with K attempts have K
\* pairwise distinct paths and K pairwise distinct branch names, and no path
\* and no branch name is shared by working copies of two battles, whatever
\* the order in which the copies of the battles are created.
C24_DistinctNames ==
    /\ \A w1, w2 \in Created :
          w1 # w2 => pathOf(w1) # pathOf(w2) /\ branchOf(w1) # branchOf(w2)
    /\ \A b \in BattleIds :
          /\ Cardinality({pathOf(w) : w \in {v \in Created : v[1] = b}})
                = battles[b].prov
          /\ Cardinality({branchOf(w) : w \in {v \in Created : v[1] = b}})
                = battles[b].prov
          /\ battles[b].startPc = "returned" => battles[b].prov = battles[b].unitCount

\* Two battles for the same issue, each with all of its two working copies.
C24_Witness ==
    \E b, c \in BattleIds :
        /\ b # c
        /\ battles[b].issueNumber = battles[c].issueNumber
        /\ battles[b].prov = 2 /\ battles[c].prov = 2
        /\ battles[b].startPc = "returned" /\ battles[c].startPc = "returned"

-----------------------------------------------------------------------------
\* The working copies of battle b that exist
CopiesOf(b) == {w \in worktrees : w[1] = b}

\* C25 as stated: when a cleanupBattle(b) call returns, no working copy of b
\* is left and the working copies of the other battles are those of before.
C25_CleanupRemovesAll ==
    [][\A b \in BattleIds :
          battles'[b].cleanupPending < battles[b].cleanupPending =>
              /\ \A w \in worktrees' : w[1] # b
              /\ \A w \in worktrees : w[1] # b => w \in worktrees']_vars

\* C25, amended: a working copy disappears only during a sweep of its own
\* battle, so cleanupBattle(b) removes no working copy of another battle; and
\* when the fs.rm that ends the sweep of b succeeds (it is reached only after
\* `git worktree list` succeeded), no working copy of b is left, whether or
\* not the single removals before it failed.
C25_CleanupFrame ==
    [][/\ \A w \in worktrees \ worktrees' :
             battles[w[1]].sweep \in {"remove", "rm"}
       /\ \A b \in BattleIds :
             /\ battles[b].sweep = "idle" => CopiesOf(b) \subseteq worktrees'
             /\ CleanupRmDone(b, TRUE) => \A w \in worktrees' : w[1] # b]_vars

\* A sweep of b has removed its two working copies while another battle keeps
\* both of its own.
C25_Witness ==
    \E b, c \in BattleIds :
        /\ b # c
        /\ battles[b].prov = 2 /\ battles[b].cleanupCalls > 0
        /\ battles[b].cleanupPending = 0
        /\ CopiesOf(b) = {}
        /\ CopiesOf(c) = {<<c, 1>>, <<c, 2>>}

-----------------------------------------------------------------------------
\* A cleanupBattle(b) call returns: after a failed `git worktree list`, or
\* after fs.rm, failed or not.
CleanupReturns(b) ==
    CleanupListed(b, FALSE) \/ CleanupRmDone(b, TRUE) \/ CleanupRmDone(b, FALSE)

\* C26: cleanupBattle never raises to its caller.  When a call returns, with
\* or without a failure inside it, the caller just goes on: the status of the
\* battle, its completion data and its agents are those of before the return
\* and no further call is made (the catch of handleAgentSuccess, which would
\* turn a victory into a defeat, is not entered).  And a `git worktree remove` that fails does not
\* end the sweep: the call stays in its sweep with the failed working copy
\* struck off the list and the rest of the list still to be removed.
C26_CleanupNeverRaises ==
    [][\A b \in BattleIds :
          /\ CleanupReturns(b) =>
                /\ battles'[b].cleanupPending = battles[b].cleanupPending - 1
                /\ battles'[b].cleanupCalls = battles[b].cleanupCalls
                /\ battles'[b].status = battles[b].status
                /\ battles'[b].completedAt = battles[b].completedAt
                /\ battles'[b].winningAgentId = battles[b].winningAgentId
                /\ battles'[b].prUrl = battles[b].prUrl
                /\ agents'[b] = agents[b]
                /\ sessions'[b] = sessions[b]
          /\ CleanupRemoved(b, FALSE) =>
                /\ battles'[b].sweep \in {"remove", "rm"}
                /\ battles'[b].cleanupPending = battles[b].cleanupPending
                /\ battles[b].todo \ battles'[b].todo \subseteq worktrees'
                /\ Cardinality(battles'[b].todo) = Cardinality(battles[b].todo) - 1
                /\ battles'[b].sweep = "rm" <=> battles'[b].todo = {}]_vars

\* A won battle whose cleanup has returned after a failure that left a
\* working copy behind: it is still a victory.
C26_Witness ==
    \E b \in BattleIds :
        /\ battles[b].status = "victory"
        /\ battles[b].cleanupCalls > 0
        /\ battles[b].cleanupPending = 0
        /\ CopiesOf(b) # {}

-----------------------------------------------------------------------------
\* C27: commitAndPush on a working copy in which git lists no changed file
\* throws (handleAgentSuccess goes to its catch: the battle is a defeat and
\* no pull request is asked for) and makes neither a commit nor a push.
C27_NoChangesNoCommit ==
    [][\A b \in BattleIds, i \in Units, g \in GitRuns :
          (g.status = "clean" /\ CommitDone(b, i, g)) =>
              /\ agents'[b][i].git = "none"
              /\ agents'[b][i].h \in {"dwait", "ddone"}
              /\ battles'[b].status = "defeat"
              /\ battles'[b].prUrl = battles[b].prUrl]_vars

\* An agent that reported success and whose commitAndPush threw before any
\* commit was made.
C27_Witness ==
    \E b \in BattleIds, i \in Units :
        /\ agents[b][i].status = "success"
        /\ agents[b][i].h \in {"dwait", "ddone"}
        /\ agents[b][i].git = "none"
        /\ battles[b].status = "defeat"

-----------------------------------------------------------------------------
\* C28: a battle leaves the list only by a remove request made while it is
\* victory or defeat; a remove request for a pending or fighting battle
\* changes nothing.  A listed battle that is victory or defeat, a cancelled
\* one included, is still listed after every step that is not such a remove
\* request, still with a terminal status and with an error text on every
\* agent that had one; a remove request or a further cancel request for any
\* battle leaves its status and its agents as they are.
C28_RemoveOnlyTerminal ==
    [][\A b \in BattleIds :
          /\ (battles[b].inMap /\ ~battles'[b].inMap) =>
                battles[b].status \in Terminal /\ RemoveBattle(b)
          /\ (battles[b].status \in {"pending", "fighting"} /\ RemoveBattle(b)) =>
                UNCHANGED vars
          /\ (battles[b].inMap /\ battles[b].status \in Terminal
                /\ ~RemoveBattle(b)) =>
                /\ battles'[b].inMap
                /\ battles'[b].status \in Terminal
                /\ \A i \in Units : agents[b][i].error # "none" =>
                                       agents'[b][i].error # "none"
          /\ (battles[b].inMap /\ battles[b].status \in Terminal
                /\ \E c \in BattleIds : RemoveBattle(c) \/ CancelBattle(c)) =>
                /\ battles'[b].status = battles[b].status
                /\ agents'[b] = agents[b]]_vars

\* A cancelled battle with a failed agent, still listed with its error text.
C28_Witness ==
    \E b \in BattleIds, i \in Units :
        /\ battles[b].inMap
        /\ battles[b].status = "defeat"
        /\ battles[b].cb = "done"
        /\ battles[b].cleanupPending = 0
        /\ agents[b][i].status = "failed"
        /\ agents[b][i].error # "none"

-----------------------------------------------------------------------------
\* C30: in every battle at most one agent's working copy is committed or
\* pushed (and so at most one agent gets as far as asking for a pull
\* request), also when several agents report success before the first
\* reporter's publication has completed.
C30_OneWinSideEffect ==
    \A b \in BattleIds :
        Cardinality({i \in Units : agents[b][i].git # "none"}) <= 1

-----------------------------------------------------------------------------
\* C31: a session delivers at most one terminal event (success or failed) to
\* the orchestrator over its whole life, also when its timeout, a cancel and
\* the return or the error of its prompt coincide.
C31_OneTerminalEvent ==
    \A b \in BattleIds, i \in Units : sessions[b][i].nEv <= 1

-----------------------------------------------------------------------------
\* C32: a battle carries a winningAgentId and a prUrl exactly when its status
\* is victory; a battle that is defeat carries neither.
C32_WinnerIffVictory ==
    \A b \in BattleIds :
        /\ battles[b].status = "victory" <=>
              (battles[b].winningAgentId # 0 /\ battles[b].prUrl # 0)
        /\ battles[b].status # "victory" =>
              (battles[b].winningAgentId = 0 /\ battles[b].prUrl = 0)

-----------------------------------------------------------------------------
\* C33: whatever the order of startBattle calls, completions, cancellations
\* and removals, at most MAX_CONCURRENT_BATTLES battles are pending or
\* fighting, whether they are still listed or not.
C33_AtMostCeiling ==
    Cardinality({b \in BattleIds : battles[b].status \in {"pending", "fighting"}})
        <= MAX_CONCURRENT_BATTLES

\* The ceiling is reached again by a battle started after another one ended.
C33_Witness ==
    /\ Cardinality(ActiveBattles) = MAX_CONCURRENT_BATTLES
    /\ \E b \in BattleIds : battles[b].status \in Terminal

-----------------------------------------------------------------------------
\* C34: a battle that is fighting eventually is victory or defeat, provided
\* the awaited calls settle or the timer of the session fires.
C34_FightingEnds ==
    \A b \in 1..MaxBattles :
        (battles[b].status = "fighting") ~> (battles[b].status \in Terminal)

\* A battle that has ended without anybody cancelling it, after one of its
\* agents failed and the other one reported success.
C34_Witness ==
    \E b \in BattleIds :
        /\ battles[b].status \in Terminal
        /\ battles[b].cb = "idle"
        /\ agents[b][1].status = "failed"
        /\ agents[b][2].status = "success"

\* C35: whenever a session's resources are being torn down or have been torn
\* down (the remote abort or the kill of cancelSession, the kill of
\* handleTimeout, cleanupSession of the finally block), the session's event
\* consumer is not running any more.
C35_ConsumerEndedBeforeTeardown ==
    \A b \in BattleIds, i \in Units :
        (\/ sessions[b][i].ct # "idle"
         \/ sessions[b][i].tk # "idle"
         \/ sessions[b][i].phase \in {"fin", "done"})
        => sessions[b][i].sub # "running"

\* C36: once the finished flag of a session is set, its activity is completed
\* and stays completed, whatever stream event or respondToPermission call
\* comes later.
C36_FinishedStaysCompleted ==
    \A b \in BattleIds, i \in Units :
        sessions[b][i].detailedState.isFinished
        => sessions[b][i].detailedState.activity = "completed"

\* The session identifiers an event carries: at the top level of its
\* properties, inside part and inside info
NamedSessions(evt) ==
    (IF "sessionID" \in DOMAIN evt THEN {evt.sessionID} ELSE {})
    \cup {evt[f].sessionID :
             f \in {g \in {"part", "info"} \cap DOMAIN evt :
                       "sessionID" \in DOMAIN evt[g]}}

\* C37: when the consumer receives an event that names another session, or
\* no session, at the top level and inside part and info, or an event of a
\* kind processEvent has no case for, the detailed state of the session stays
\* as it was and no progress callback is made.
C37_UncorrelatedIgnored ==
    [][\A b \in BattleIds, i \in Units,
          evt \in Nested \cup Unrecognized \cup StatusEvents :
          (/\ \/ sessionId(b, i) \notin NamedSessions(evt)
              \/ evt.type \notin RecognizedTypes
           /\ ProcessEvent(b, i, evt))
          => /\ sessions'[b][i].detailedState = sessions[b][i].detailedState
             /\ sessions'[b][i].progress = sessions[b][i].progress
             /\ sessions'[b][i].seen = sessions[b][i].seen + 1]_vars

C37_Witness ==
    \E b \in BattleIds, i \in Units :
        /\ sessions[b][i].seen = 2
        /\ sessions[b][i].progress = 1
        /\ sessions[b][i].detailedState.activity = "thinking"
        /\ sessions[b][i].detailedState.tokens.input = 0

\* C38: whenever the activity of a session is waiting_permission, a pending
\* permission request is stored; and a step that clears the pending request
\* (a permission.replied event, a successful respondToPermission) ends with
\* an activity other than waiting_permission.
C38_WaitingHasPending ==
    /\ [](\A b \in BattleIds, i \in Units :
            sessions[b][i].detailedState.activity = "waiting_permission"
            => sessions[b][i].detailedState.pendingPermission # <<>>)
    /\ [][\A b \in BattleIds, i \in Units :
            (/\ sessions[b][i].detailedState.pendingPermission # <<>>
             /\ sessions'[b][i].detailedState.pendingPermission = <<>>)
            => sessions'[b][i].detailedState.activity # "waiting_permission"]_vars

C38_Witness ==
    \E b \in BattleIds, i \in Units :
        /\ sessions[b][i].detailedState.activity = "waiting_permission"
        /\ sessions[b][i].detailedState.pendingPermission # <<>>
        /\ sessions[b][i].rp = 1

Ported == {p \in BattleIds \X Units : sessions[p[1]][p[2]].serverPort # <<>>}

\* C40: any two sessions that have been given a port have different ports,
\* whenever they were started; and the kill by port of forceKillSession for
\* one session hits no other session's server.
C40_DistinctPorts ==
    /\ [](\A p, q \in Ported :
            p # q => sessions[p[1]][p[2]].serverPort # sessions[q[1]][q[2]].serverPort)
    /\ [][\A b \in BattleIds, i \in Units :
            (TimeoutKillDone(b, i) \/ CancelKillDone(b, i))
            => \A p \in (BattleIds \X Units) \ {<<b, i>>} :
                  sessions'[p[1]][p[2]].killed = sessions[p[1]][p[2]].killed]_vars

C40_Witness ==
    \E p, q \in Ported :
        /\ p[1] # q[1]
        /\ sessions[p[1]][p[2]].killed
        /\ ~sessions[q[1]][q[2]].killed
        /\ sessions[q[1]][q[2]].conn = 2

=========================================================================
